---- MODULE Spec2Model ----
(***************************************************************************)
(* A model of the BlessCrawl client of @blessnetwork/sdk-ts                *)
(* (src/lib/bless-crawl.ts): the URL guard, the option validation, the     *)
(* dual-mode dispatch and the decoder of the remote reply.                 *)
(*                                                                         *)
(* JavaScript values are tagged records.  A string is a sequence of        *)
(* lexemes (a run of letters, a run of digits, one punctuation character,  *)
(* one blank, or a quoted literal), so that trimming, string length,       *)
(* pattern matching, JSON.stringify and JSON.parse are computed and not    *)
(* assumed.                                                                *)
(***************************************************************************)
EXTENDS Integers, Sequences, FiniteSets

-----------------------------------------------------------------------------
(* Lexemes and strings *)

W(w) == [k |-> "w", w |-> w]          \* a run of letters
D(n) == [k |-> "d", n |-> n]          \* the decimal digits of the natural n
P(c) == [k |-> "p", c |-> c]          \* one punctuation character
SP == [k |-> "sp"]                    \* one blank
Q(s) == [k |-> "q", s |-> s]          \* a double-quoted literal holding the string s

RECURSIVE DigitCount(_)
DigitCount(n) == IF n < 10 THEN 1 ELSE 1 + DigitCount(n \div 10)

RECURSIVE StrLen(_)
\* the halves are summed, so that the depth of the evaluation stays small
StrLen(s) ==
  LET
    LexLen(x) ==
      CASE x.k = "w" -> Len(x.w)
        [] x.k = "d" -> DigitCount(x.n)
        [] x.k = "q" -> 2 + StrLen(x.s)
        [] OTHER -> 1
  IN
    IF s = <<>> THEN 0
    ELSE IF Len(s) = 1 THEN LexLen(s[1])
    ELSE LET h == Len(s) \div 2 IN
         StrLen(SubSeq(s, 1, h)) + StrLen(SubSeq(s, h + 1, Len(s)))

\* String.prototype.trim: drops the leading and the trailing blanks.
RECURSIVE TrimStart(_)
TrimStart(s) == IF s # <<>> /\ Head(s).k = "sp" THEN TrimStart(Tail(s)) ELSE s
RECURSIVE TrimEnd(_)
TrimEnd(s) ==
  IF s # <<>> /\ s[Len(s)].k = "sp" THEN TrimEnd(SubSeq(s, 1, Len(s) - 1)) ELSE s
Trim(s) == TrimEnd(TrimStart(s))

-----------------------------------------------------------------------------
(* JavaScript values *)

Undefined == [t |-> "undefined"]
Null == [t |-> "null"]
Bool(b) == [t |-> "bool", b |-> b]
Num(n) == [t |-> "num", n |-> n, f |-> 0]        \* the integer n
Frac(n, f) == [t |-> "num", n |-> n, f |-> f]    \* n.f, f > 0: not an integer
NaN == [t |-> "nan"]
Str(s) == [t |-> "str", s |-> s]
Arr(a) == [t |-> "arr", a |-> a]
Obj(o) == [t |-> "obj", o |-> o]                 \* o: a sequence of properties
Prop(key, v) == [k |-> key, v |-> v]
\* an Error instance: name is the class, message the text
Error(name, message) == [t |-> "err", name |-> name, message |-> message]

\* typeof v
TypeOf(v) ==
  CASE v.t = "undefined" -> "undefined"
    [] v.t = "bool" -> "boolean"
    [] v.t \in {"num", "nan"} -> "number"
    [] v.t = "str" -> "string"
    [] OTHER -> "object"

\* ToBoolean(v): !v is ~Truthy(v)
Truthy(v) ==
  CASE v.t \in {"undefined", "null", "nan"} -> FALSE
    [] v.t = "bool" -> v.b
    [] v.t = "num" -> ~(v.n = 0 /\ v.f = 0)
    [] v.t = "str" -> v.s # <<>>
    [] OTHER -> TRUE

HasOwn(v, key) == v.t = "obj" /\ \E i \in 1..Len(v.o) : v.o[i].k = key

\* v.key for a value v that is neither null nor undefined
Get(v, key) ==
  IF HasOwn(v, key)
    THEN v.o[CHOOSE i \in 1..Len(v.o) : v.o[i].k = key].v
    ELSE Undefined

\* v?.key
OptGet(v, key) == IF v.t \in {"undefined", "null"} THEN Undefined ELSE Get(v, key)

\* a || b
OrElse(a, b) == IF Truthy(a) THEN a ELSE b

\* `${v}` in a template literal, String(v)
RECURSIVE TemplateString(_)
RECURSIVE JoinItems(_)
TemplateString(v) ==
  CASE v.t = "undefined" -> <<W("undefined")>>
    [] v.t = "null" -> <<W("null")>>
    [] v.t = "nan" -> <<W("NaN")>>
    [] v.t = "bool" -> IF v.b THEN <<W("true")>> ELSE <<W("false")>>
    [] v.t = "num" ->
         (IF v.n < 0 THEN <<P("-"), D(-v.n)>> ELSE <<D(v.n)>>)
           \o (IF v.f = 0 THEN <<>> ELSE <<P("."), D(v.f)>>)
    [] v.t = "str" -> v.s
    [] v.t = "arr" -> JoinItems(v.a)
    [] v.t = "err" -> <<W(v.name), P(":"), SP>> \o v.message
    [] OTHER -> <<P("["), W("object"), SP, W("Object"), P("]")>>
JoinItems(a) ==
  IF a = <<>> THEN <<>>
  ELSE (IF Head(a).t \in {"undefined", "null"} THEN <<>> ELSE TemplateString(Head(a)))
         \o (IF Len(a) > 1 THEN <<P(",")>> ELSE <<>>) \o JoinItems(Tail(a))

-----------------------------------------------------------------------------
(* JSON.stringify and JSON.parse *)

\* a writer that leaves out every property whose value is falsy
Written_DropsFalsy(o) == SelectSeq(o, LAMBDA p : Truthy(p.v))

\* The properties JSON.stringify writes: those whose value is not undefined.
Written(o) == SelectSeq(o, LAMBDA p : p.v.t # "undefined")

RECURSIVE StringifyValue(_)
RECURSIVE StringifyProps(_)
RECURSIVE StringifyItems(_)
StringifyValue(v) ==
  CASE v.t \in {"null", "nan", "undefined"} -> <<W("null")>>
    [] v.t \in {"bool", "num"} -> TemplateString(v)
    [] v.t = "str" -> <<Q(v.s)>>
    [] v.t = "arr" -> <<P("[")>> \o StringifyItems(v.a) \o <<P("]")>>
    [] v.t = "obj" -> <<P("{")>> \o StringifyProps(Written(v.o)) \o <<P("}")>>
    [] OTHER -> <<P("{"), P("}")>>
StringifyProps(o) ==
  IF o = <<>> THEN <<>>
  ELSE <<Q(Head(o).k), P(":")>> \o StringifyValue(Head(o).v)
         \o (IF Len(o) > 1 THEN <<P(",")>> ELSE <<>>) \o StringifyProps(Tail(o))
\* the items, one comma between two of them, taken by halves
StringifyItems(a) ==
  IF a = <<>> THEN <<>>
  ELSE IF Len(a) = 1 THEN StringifyValue(a[1])
  ELSE LET h == Len(a) \div 2
       IN StringifyItems(SubSeq(a, 1, h)) \o <<P(",")>>
            \o StringifyItems(SubSeq(a, h + 1, Len(a)))

\* JSON.stringify(v) for a value v that is not undefined
JSONstringify(v) == StringifyValue(v)

IsP(x, c) == x.k = "p" /\ x.c = c
Failed(i) == [ok |-> FALSE, v |-> Undefined, i |-> i]
Parsed(v, i) == [ok |-> TRUE, v |-> v, i |-> i]

RECURSIVE SkipBlanks(_, _)
SkipBlanks(s, i) == IF i <= Len(s) /\ s[i].k = "sp" THEN SkipBlanks(s, i + 1) ELSE i

\* o[p.k] = p.v: a key that is there keeps its place, a new one comes last
PutOwn(o, p) ==
  IF \E i \in 1..Len(o) : o[i].k = p.k
    THEN [i \in 1..Len(o) |-> IF o[i].k = p.k THEN p ELSE o[i]]
    ELSE Append(o, p)

RECURSIVE ParseValue(_, _)
RECURSIVE ParseMembers(_, _, _)
RECURSIVE ParseElements(_, _, _)
ParseValue(s, i0) ==
  LET i == SkipBlanks(s, i0) IN
  IF i > Len(s) THEN Failed(i)
  ELSE LET x == s[i] IN
    CASE x.k = "q" -> Parsed(Str(x.s), i + 1)
      [] x.k = "d" ->
           IF i + 2 <= Len(s) /\ IsP(s[i + 1], ".") /\ s[i + 2].k = "d"
             THEN Parsed(Frac(x.n, s[i + 2].n), i + 3)
             ELSE Parsed(Num(x.n), i + 1)
      [] x.k = "w" ->
           (CASE x.w = "true" -> Parsed(Bool(TRUE), i + 1)
              [] x.w = "false" -> Parsed(Bool(FALSE), i + 1)
              [] x.w = "null" -> Parsed(Null, i + 1)
              [] OTHER -> Failed(i))
      [] x.k = "p" ->
           (CASE x.c = "-" ->
                   IF i + 1 <= Len(s) /\ s[i + 1].k = "d"
                     THEN Parsed(Num(-(s[i + 1].n)), i + 2)
                     ELSE Failed(i)
              [] x.c = "{" ->
                   LET j == SkipBlanks(s, i + 1) IN
                   IF j <= Len(s) /\ IsP(s[j], "}")
                     THEN Parsed(Obj(<<>>), j + 1)
                     ELSE ParseMembers(s, j, <<>>)
              [] x.c = "[" ->
                   LET j == SkipBlanks(s, i + 1) IN
                   IF j <= Len(s) /\ IsP(s[j], "]")
                     THEN Parsed(Arr(<<>>), j + 1)
                     ELSE ParseElements(s, j, <<>>)
              [] OTHER -> Failed(i))
      [] OTHER -> Failed(i)
ParseMembers(s, i0, acc) ==
  LET i == SkipBlanks(s, i0) IN
  IF i > Len(s) \/ s[i].k # "q" THEN Failed(i)
  ELSE LET c == SkipBlanks(s, i + 1) IN
    IF c > Len(s) \/ ~IsP(s[c], ":") THEN Failed(c)
    ELSE LET r == ParseValue(s, c + 1) IN
      IF ~r.ok THEN r
      ELSE LET j == SkipBlanks(s, r.i)
               o == PutOwn(acc, Prop(s[i].s, r.v)) IN
        IF j > Len(s) THEN Failed(j)
        ELSE IF IsP(s[j], "}") THEN Parsed(Obj(o), j + 1)
        ELSE IF IsP(s[j], ",") THEN ParseMembers(s, j + 1, o)
        ELSE Failed(j)
ParseElements(s, i0, acc) ==
  LET r == ParseValue(s, i0) IN
  IF ~r.ok THEN r
  ELSE LET j == SkipBlanks(s, r.i)
           a == Append(acc, r.v) IN
    IF j > Len(s) THEN Failed(j)
    ELSE IF IsP(s[j], "]") THEN Parsed(Arr(a), j + 1)
    ELSE IF IsP(s[j], ",") THEN ParseElements(s, j + 1, a)
    ELSE Failed(j)

\* JSON.parse(text): [ok |-> TRUE, v |-> the value], or ok = FALSE where it
\* throws a SyntaxError
JSONparse(s) ==
  LET r == ParseValue(s, 1) IN
  IF r.ok /\ SkipBlanks(s, r.i) > Len(s) THEN [ok |-> TRUE, v |-> r.v]
  ELSE [ok |-> FALSE, v |-> Undefined]

-----------------------------------------------------------------------------
(* Texts, property names and error codes *)

\* the words ws, one blank between two of them
RECURSIVE Words(_)
Words(ws) ==
  IF ws = <<>> THEN <<>>
  ELSE <<W(Head(ws))>> \o (IF Len(ws) > 1 THEN <<SP>> ELSE <<>>) \o Words(Tail(ws))

\* the words ws, one underscore between two of them
RECURSIVE Snake(_)
Snake(ws) ==
  IF ws = <<>> THEN <<>>
  ELSE <<W(Head(ws))>> \o (IF Len(ws) > 1 THEN <<P("_")>> ELSE <<>>) \o Snake(Tail(ws))

K(name) == <<W(name)>>
kExitCode == Snake(<<"exit", "code">>)

VALIDATION_ERROR == Snake(<<"VALIDATION", "ERROR">>)
HTTP_ERROR == Snake(<<"HTTP", "ERROR">>)
RESPONSE_FORMAT_ERROR == Snake(<<"RESPONSE", "FORMAT", "ERROR">>)
FUNCTION_EXECUTION_ERROR == Snake(<<"FUNCTION", "EXECUTION", "ERROR">>)
NO_RESULTS_ERROR == Snake(<<"NO", "RESULTS", "ERROR">>)
RESULT_FORMAT_ERROR == Snake(<<"RESULT", "FORMAT", "ERROR">>)
FUNCTION_EXIT_ERROR == Snake(<<"FUNCTION", "EXIT", "ERROR">>)
STDOUT_FORMAT_ERROR == Snake(<<"STDOUT", "FORMAT", "ERROR">>)
STDOUT_PARSE_ERROR == Snake(<<"STDOUT", "PARSE", "ERROR">>)
STDIN_OUTPUT_FORMAT_ERROR == Snake(<<"STDIN", "OUTPUT", "FORMAT", "ERROR">>)
OPERATION_ERROR == Snake(<<"OPERATION", "ERROR">>)
NO_DATA_ERROR == Snake(<<"NO", "DATA", "ERROR">>)

NoErrorDetails == Words(<<"No", "error", "details", "available">>)
OperationFailed == Words(<<"Operation", "failed">>)
UrlMustBeNonEmpty == Words(<<"URL", "must", "be", "a", "non">>) \o <<P("-")>> \o Words(<<"empty", "string">>)

-----------------------------------------------------------------------------
(* The error classes *)

\* new BlessCrawlError(message, code, cause): code and cause are Undefined
\* where the constructor is called without them
BlessCrawlError(message, code, cause) ==
  [t |-> "err", name |-> "BlessCrawlError", message |-> message,
   code |-> code, cause |-> cause]

\* new BlessCrawlValidationError(message, validationErrors)
BlessCrawlValidationError(message, validationErrors) ==
  [t |-> "err", name |-> "BlessCrawlValidationError", message |-> message,
   code |-> Str(VALIDATION_ERROR), cause |-> validationErrors,
   validationErrors |-> validationErrors]

\* error instanceof BlessCrawlError
InstanceOfBlessCrawlError(e) ==
  e.t = "err" /\ e.name \in {"BlessCrawlError", "BlessCrawlValidationError"}

\* error instanceof Error
InstanceOfError(e) == e.t = "err"

\* how a piece of code ends: it returns a value or throws one
Return(v) == [kind |-> "return", v |-> v]
Throw(e) == [kind |-> "throw", v |-> e]

-----------------------------------------------------------------------------
(* makeHttpRequest: the decoder of the remote reply *)

\* the catch clause rethrowing every error as an HTTP_ERROR
CatchHttp_AlwaysWraps(error) ==
  Throw(BlessCrawlError(
    Words(<<"Failed", "to", "make", "HTTP", "request">>) \o <<P(":"), SP>>
      \o (IF InstanceOfError(error) THEN error.message
          ELSE Words(<<"Unknown", "error">>)),
    Str(HTTP_ERROR), error))

\* the catch clause around the request and the decoding
CatchHttp(error) ==
  IF InstanceOfBlessCrawlError(error)
    THEN Throw(error)
    ELSE Throw(BlessCrawlError(
           Words(<<"Failed", "to", "make", "HTTP", "request">>) \o <<P(":"), SP>>
             \o (IF InstanceOfError(error) THEN error.message
                 ELSE Words(<<"Unknown", "error">>)),
           Str(HTTP_ERROR), error))

\* if (!response.ok) throw ...
CheckResponseOk(response) ==
  IF ~response.ok
    THEN Throw(BlessCrawlError(
           Words(<<"HTTP", "request", "failed", "with", "status">>) \o <<SP, D(response.status)>>
             \o <<P(":"), SP>> \o response.statusText,
           Str(HTTP_ERROR), Undefined))
    ELSE Return(Undefined)

\* response.json(): the body read and parsed; it rejects with a TypeError where
\* the body cannot be read and with a SyntaxError where it is no JSON text
ResponseJson(response) ==
  IF ~response.readable
    THEN Throw(Error("TypeError", Words(<<"terminated">>)))
    ELSE LET r == JSONparse(response.body) IN
         IF r.ok THEN Return(r.v)
         ELSE Throw(Error("SyntaxError", Words(<<"Unexpected", "token">>)))

\* the error of a falsy success, its fields taken with ?? in the place of ||
OperationError_Nullish(error) ==
  LET Coalesce(x, y) == IF x.t \in {"undefined", "null"} THEN y ELSE x IN
  BlessCrawlError(
    TemplateString(Coalesce(OptGet(error, K("message")), Str(OperationFailed))),
    Coalesce(OptGet(error, K("code")), Str(OPERATION_ERROR)),
    OptGet(error, K("details")))

\* the error of a falsy success: error is stdinOutput.error
OperationError(error) ==
  BlessCrawlError(
    TemplateString(OrElse(OptGet(error, K("message")), Str(OperationFailed))),
    OrElse(OptGet(error, K("code")), Str(OPERATION_ERROR)),
    OptGet(error, K("details")))

\* the error of a missing data, without its cause
NoDataError_NoCause(stdinOutput) ==
  BlessCrawlError(
    Words(<<"No", "data", "returned", "from", "successful", "operation">>),
    Str(NO_DATA_ERROR), Undefined)

\* the error of a missing data
NoDataError(stdinOutput) ==
  BlessCrawlError(
    Words(<<"No", "data", "returned", "from", "successful", "operation">>),
    Str(NO_DATA_ERROR), stdinOutput)

\* the checks on the parsed stdout, with the whole of it returned
DecodeStdinOutput_ReturnsAll(stdinOutput) ==
  IF ~Truthy(stdinOutput) \/ TypeOf(stdinOutput) # "object"
    THEN Throw(BlessCrawlError(
           Words(<<"Invalid", "StdinOutput", "format">>) \o <<P(":"), SP>>
             \o Words(<<"expected", "JSON", "object">>),
           Str(STDIN_OUTPUT_FORMAT_ERROR), stdinOutput))
  ELSE IF ~Truthy(Get(stdinOutput, K("success")))
    THEN Throw(OperationError(Get(stdinOutput, K("error"))))
  ELSE IF ~Truthy(Get(stdinOutput, K("data")))
    THEN Throw(NoDataError(stdinOutput))
  ELSE Return(stdinOutput)

\* the checks on the parsed stdout, from "Validate StdinOutput structure" on
DecodeStdinOutput(stdinOutput) ==
  IF ~Truthy(stdinOutput) \/ TypeOf(stdinOutput) # "object"
    THEN Throw(BlessCrawlError(
           Words(<<"Invalid", "StdinOutput", "format">>) \o <<P(":"), SP>>
             \o Words(<<"expected", "JSON", "object">>),
           Str(STDIN_OUTPUT_FORMAT_ERROR), stdinOutput))
  ELSE IF ~Truthy(Get(stdinOutput, K("success")))
    THEN Throw(OperationError(Get(stdinOutput, K("error"))))
  ELSE IF ~Truthy(Get(stdinOutput, K("data")))
    THEN Throw(NoDataError(stdinOutput))
  ELSE Return(Get(stdinOutput, K("data")))

\* the error of an exit code that is not 0, without the stderr text
ExitCodeError_NoStderr(result) ==
  BlessCrawlError(
    Words(<<"Function", "execution", "failed", "with", "exit", "code">>) \o <<SP>>
      \o TemplateString(Get(result, kExitCode)) \o <<P(":"), SP>> \o NoErrorDetails,
    Str(FUNCTION_EXIT_ERROR), result)

\* the error of an exit code that is not 0
ExitCodeError(result) ==
  LET stderr == OrElse(Get(result, K("stderr")), Str(NoErrorDetails)) IN
  BlessCrawlError(
    Words(<<"Function", "execution", "failed", "with", "exit", "code">>) \o <<SP>>
      \o TemplateString(Get(result, kExitCode)) \o <<P(":"), SP>>
      \o TemplateString(stderr),
    Str(FUNCTION_EXIT_ERROR), result)

\* the error of a stdout that is no non-empty string, under a code of its own
StdoutFormatError_OtherCode(result) ==
  BlessCrawlError(
    Words(<<"Invalid", "stdout">>) \o <<P(":"), SP>>
      \o Words(<<"expected", "non">>) \o <<P("-")>> \o Words(<<"empty", "string">>),
    Str(Snake(<<"STDOUT", "ERROR">>)), result)

\* the error of a stdout that is no string, or the empty one
StdoutFormatError(result) ==
  BlessCrawlError(
    Words(<<"Invalid", "stdout">>) \o <<P(":"), SP>>
      \o Words(<<"expected", "non">>) \o <<P("-")>> \o Words(<<"empty", "string">>),
    Str(STDOUT_FORMAT_ERROR), result)

\* the error of a stdout that JSON.parse throws parseError on
StdoutParseError(stdout, parseError) ==
  BlessCrawlError(
    Words(<<"Failed", "to", "parse", "stdout", "as", "JSON">>) \o <<P(":"), SP>>
      \o parseError.message,
    Str(STDOUT_PARSE_ERROR),
    Obj(<<Prop(K("stdout"), stdout), Prop(K("parseError"), parseError)>>))

\* the checks on results[0].result, every string stdout parsed
DecodeResult_ParsesAnyString(result) ==
  IF Get(result, kExitCode) # Num(0) THEN Throw(ExitCodeError(result))
  ELSE LET stdout == Get(result, K("stdout")) IN
    IF TypeOf(stdout) # "string" THEN Throw(StdoutFormatError(result))
    ELSE LET r == JSONparse(stdout.s) IN
      IF ~r.ok
        THEN Throw(StdoutParseError(stdout,
                     Error("SyntaxError", Words(<<"Unexpected", "token">>))))
        ELSE DecodeStdinOutput(r.v)

\* the checks on results[0].result, from "Check exit code" on
DecodeResult(result) ==
  IF Get(result, kExitCode) # Num(0) THEN Throw(ExitCodeError(result))
  ELSE LET stdout == Get(result, K("stdout")) IN
    IF ~Truthy(stdout) \/ TypeOf(stdout) # "string"
      THEN Throw(StdoutFormatError(result))
    ELSE LET r == JSONparse(stdout.s) IN
      IF ~r.ok
        THEN Throw(StdoutParseError(stdout,
                     Error("SyntaxError", Words(<<"Unexpected", "token">>))))
        ELSE DecodeStdinOutput(r.v)

\* the checks on the parsed body, from "Validate outer response structure" on
DecodeHttpResult(httpResult) ==
  IF ~Truthy(httpResult) \/ TypeOf(httpResult) # "object"
    THEN Throw(BlessCrawlError(
           Words(<<"Invalid", "response", "format">>) \o <<P(":"), SP>>
             \o Words(<<"expected", "JSON", "object">>),
           Str(RESPONSE_FORMAT_ERROR), Undefined))
  ELSE IF Get(httpResult, K("code")) # Str(<<D(200)>>)
    THEN Throw(BlessCrawlError(
           Words(<<"Function", "execution", "failed", "with", "code">>) \o <<SP>>
             \o TemplateString(Get(httpResult, K("code"))),
           Str(FUNCTION_EXECUTION_ERROR), httpResult))
  ELSE LET results == Get(httpResult, K("results")) IN
    IF ~Truthy(results) \/ results.t # "arr" \/ Len(results.a) = 0
      THEN Throw(BlessCrawlError(
             Words(<<"No", "results", "returned", "from", "function", "execution">>),
             Str(NO_RESULTS_ERROR), httpResult))
    ELSE LET firstResult == results.a[1] IN
      IF ~Truthy(firstResult) \/ ~Truthy(Get(firstResult, K("result")))
        THEN Throw(BlessCrawlError(
               Words(<<"Invalid", "result", "structure">>) \o <<P(":"), SP>>
                 \o Words(<<"missing", "result", "field">>),
               Str(RESULT_FORMAT_ERROR), firstResult))
        ELSE DecodeResult(Get(firstResult, K("result")))

-----------------------------------------------------------------------------
(* The zod schemas.  Every field of the three option schemas is optional. *)

\* z.number().int().min(min).max(max)
\* bounds that are exclusive
ZNumberInt_Open(min, max) == [z |-> "number", min |-> min - 1, max |-> max + 1]
ZNumberInt(min, max) == [z |-> "number", min |-> min, max |-> max]
ZBoolean == [z |-> "boolean"]
ZEnum(vals) == [z |-> "enum", vals |-> vals]
\* z.string() and its chained checks, in their order
ZString(checks) == [z |-> "string", checks |-> checks]
Min(n) == [c |-> "min", n |-> n]
Max(n) == [c |-> "max", n |-> n]
Regex(re) == [c |-> "regex", re |-> re]
ZArray(el, max) == [z |-> "array", el |-> el, max |-> max]
ZObject(shape) == [z |-> "object", shape |-> shape]
ZRecord(key, val, maxKeys) == [z |-> "record", key |-> key, val |-> val, maxKeys |-> maxKeys]
Field(key, schema) == [k |-> key, s |-> schema]

Matches(re, s) ==
  LET
    \* /^[a-zA-Z][a-zA-Z0-9-]*$/ and /^[a-zA-Z][a-zA-Z0-9-_]*$/
    MatchesName(marks) ==
      /\ s # <<>>
      /\ Head(s).k = "w"
      /\ \A i \in 1..Len(s) : s[i].k \in {"w", "d"} \/ (s[i].k = "p" /\ s[i].c \in marks)
    \* /^\.[a-zA-Z0-9]{1,10}$/
    MatchesExtension ==
      /\ s # <<>>
      /\ IsP(Head(s), ".")
      /\ \A i \in 2..Len(s) : s[i].k \in {"w", "d"}
      /\ StrLen(Tail(s)) \in 1..10
  IN
    CASE re = "tag" -> MatchesName({"-"})
      [] re = "header" -> MatchesName({"-", "_"})
      [] re = "extension" -> MatchesExtension

TagSchema == ZString(<<Min(1), Max(50), Regex("tag")>>)
ViewportSchema ==
  ZObject(<<Field(K("width"), ZNumberInt(320, 7680)),
            Field(K("height"), ZNumberInt(240, 4320))>>)
ScrapeShape ==
  <<Field(K("timeout"), ZNumberInt(5000, 120000)),
    Field(Snake(<<"wait", "time">>), ZNumberInt(0, 20000)),
    Field(Snake(<<"include", "tags">>), ZArray(TagSchema, 50)),
    Field(Snake(<<"exclude", "tags">>), ZArray(TagSchema, 50)),
    Field(Snake(<<"only", "main", "content">>), ZBoolean),
    Field(K("format"), ZEnum({K("markdown"), K("html"), K("json")})),
    Field(K("viewport"), ViewportSchema),
    Field(Snake(<<"user", "agent">>), ZString(<<Min(1), Max(500)>>)),
    Field(K("headers"),
          ZRecord(ZString(<<Min(1), Max(100), Regex("header")>>), ZString(<<Max(1000)>>), 20))>>
ScrapeOptionsSchema == ZObject(ScrapeShape)
MapOptionsSchema ==
  ZObject(<<Field(Snake(<<"link", "types">>),
                  ZArray(ZEnum({K("internal"), K("external"), K("anchor"),
                                K("mailto"), K("tel"), K("file")}), 10)),
            Field(Snake(<<"base", "url">>), ZString(<<>>)),
            Field(Snake(<<"filter", "extensions">>),
                  ZArray(ZString(<<Regex("extension")>>), 20))>>)
CrawlOptionsSchema ==
  ZObject(<<Field(K("limit"), ZNumberInt(1, 1000)),
            Field(Snake(<<"max", "depth">>), ZNumberInt(1, 5)),
            Field(Snake(<<"exclude", "paths">>), ZArray(ZString(<<Min(1), Max(200)>>), 100)),
            Field(Snake(<<"include", "paths">>), ZArray(ZString(<<Min(1), Max(200)>>), 100)),
            Field(Snake(<<"follow", "external">>), ZBoolean),
            Field(Snake(<<"delay", "between", "requests">>), ZNumberInt(0, 30000)),
            Field(Snake(<<"parallel", "requests">>), ZNumberInt(1, 5))>>)
\* ScrapeOptionsSchema.extend({endpoint_url, function_id})
ConfigSchema ==
  ZObject(ScrapeShape \o
          <<Field(Snake(<<"endpoint", "url">>), ZString(<<>>)),
            Field(Snake(<<"function", "id">>), ZString(<<>>))>>)

-----------------------------------------------------------------------------
(* schema.parse(value): the issues, all of them collected, and the output *)

Issue(path, code) == [path |-> path, code |-> code]

\* the type zod reports for a value
ZodType(v) ==
  CASE v.t = "arr" -> "array"
    [] v.t = "null" -> "null"
    [] v.t = "nan" -> "nan"
    [] OTHER -> TypeOf(v)

\* the issues of the chained checks of a string schema
RECURSIVE StringIssues(_, _, _)
StringIssues(checks, s, path) ==
  IF checks = <<>> THEN <<>>
  ELSE LET c == Head(checks) IN
    (CASE c.c = "min" -> IF StrLen(s) < c.n THEN <<Issue(path, "too_small")>> ELSE <<>>
       [] c.c = "max" -> IF StrLen(s) > c.n THEN <<Issue(path, "too_big")>> ELSE <<>>
       [] c.c = "regex" -> IF ~Matches(c.re, s) THEN <<Issue(path, "invalid_string")>> ELSE <<>>)
      \o StringIssues(Tail(checks), s, path)

RECURSIVE ZodIssues(_, _, _)
RECURSIVE ItemIssues(_, _, _, _)
RECURSIVE ShapeIssues(_, _, _)
RECURSIVE RecordIssues(_, _, _, _)
\* the issues of an optional field: undefined is accepted
ZodIssues(schema, v, path) ==
  IF v.t = "undefined" THEN <<>>
  ELSE
    CASE schema.z = "number" ->
           IF ZodType(v) # "number" THEN <<Issue(path, "invalid_type")>>
           ELSE (IF v.f # 0 THEN <<Issue(path, "not_integer")>> ELSE <<>>)
             \o (IF v.n < schema.min THEN <<Issue(path, "too_small")>> ELSE <<>>)
             \o (IF v.n > schema.max \/ (v.n = schema.max /\ v.f # 0)
                   THEN <<Issue(path, "too_big")>> ELSE <<>>)
      [] schema.z = "boolean" ->
           IF ZodType(v) # "boolean" THEN <<Issue(path, "invalid_type")>> ELSE <<>>
      [] schema.z = "enum" ->
           IF ZodType(v) # "string" THEN <<Issue(path, "invalid_type")>>
           ELSE IF v.s \notin schema.vals THEN <<Issue(path, "invalid_enum_value")>>
           ELSE <<>>
      [] schema.z = "string" ->
           IF ZodType(v) # "string" THEN <<Issue(path, "invalid_type")>>
           ELSE StringIssues(schema.checks, v.s, path)
      [] schema.z = "array" ->
           IF ZodType(v) # "array" THEN <<Issue(path, "invalid_type")>>
           ELSE (IF Len(v.a) > schema.max THEN <<Issue(path, "too_big")>> ELSE <<>>)
             \o ItemIssues(schema.el, v.a, 1, path)
      [] schema.z = "object" ->
           IF ZodType(v) # "object" THEN <<Issue(path, "invalid_type")>>
           ELSE ShapeIssues(schema.shape, v, path)
      [] schema.z = "record" ->
           IF ZodType(v) # "object" THEN <<Issue(path, "invalid_type")>>
           ELSE RecordIssues(schema, v.o, 1, path)
             \o (IF Len(v.o) > schema.maxKeys THEN <<Issue(path, "custom")>> ELSE <<>>)
\* the issues of the items a, the first of which is the i-th of the array;
\* the items are taken by halves, which keeps the nesting shallow
ItemIssues(el, a, i, path) ==
  IF a = <<>> THEN <<>>
  ELSE IF Len(a) = 1
    THEN (IF a[1].t = "undefined"
            THEN <<Issue(Append(path, Num(i - 1)), "invalid_type")>>
            ELSE ZodIssues(el, a[1], Append(path, Num(i - 1))))
  ELSE LET h == Len(a) \div 2
       IN ItemIssues(el, SubSeq(a, 1, h), i, path)
            \o ItemIssues(el, SubSeq(a, h + 1, Len(a)), i + h, path)
ShapeIssues(shape, v, path) ==
  IF shape = <<>> THEN <<>>
  ELSE ZodIssues(Head(shape).s, Get(v, Head(shape).k), Append(path, Str(Head(shape).k)))
         \o ShapeIssues(Tail(shape), v, path)
RecordIssues(schema, o, i, path) ==
  IF i > Len(o) THEN <<>>
  ELSE ZodIssues(schema.key, Str(o[i].k), Append(path, Str(o[i].k)))
         \o (IF o[i].v.t = "undefined"
               THEN <<Issue(Append(path, Str(o[i].k)), "invalid_type")>>
               ELSE ZodIssues(schema.val, o[i].v, Append(path, Str(o[i].k))))
         \o RecordIssues(schema, o, i + 1, path)

\* the issues of schema.parse(value) for one of the option schemas: the value
\* itself is required to be an object
ParseIssues(schema, v) ==
  IF ZodType(v) # "object" THEN <<Issue(<<>>, "invalid_type")>>
  ELSE ShapeIssues(schema.shape, v, <<>>)

\* a parse that passes unknown keys through
ZodOutput_Passthrough(schema, v) == v

\* the output of a successful parse: the declared keys, in the schema's order,
\* that the input holds or whose value is not undefined; other keys are stripped
RECURSIVE ZodOutput(_, _)
RECURSIVE ShapeOutput(_, _)
ZodOutput(schema, v) ==
  IF v.t = "undefined" THEN v
  ELSE IF schema.z = "object" THEN Obj(ShapeOutput(schema.shape, v))
  ELSE v
ShapeOutput(shape, v) ==
  IF shape = <<>> THEN <<>>
  ELSE (IF HasOwn(v, Head(shape).k)
          THEN <<Prop(Head(shape).k, ZodOutput(Head(shape).s, Get(v, Head(shape).k)))>>
          ELSE <<>>)
         \o ShapeOutput(Tail(shape), v)

\* a ZodError
ZodError(issues) == [t |-> "err", name |-> "ZodError", message |-> <<>>, errors |-> issues]

\* path.join('.')
RECURSIVE JoinPath(_)
JoinPath(path) ==
  IF path = <<>> THEN <<>>
  ELSE TemplateString(Head(path))
         \o (IF Len(path) > 1 THEN <<P(".")>> ELSE <<>>) \o JoinPath(Tail(path))

\* formatZodErrors(error)
RECURSIVE formatZodErrors(_)
formatZodErrors(errors) ==
  LET
    \* the default text of an issue
    IssueMessage(code) ==
      CASE code = "invalid_type" -> Words(<<"Invalid", "type">>)
        [] code = "not_integer" -> Words(<<"Expected", "integer">>)
        [] code = "too_small" -> Words(<<"Too", "small">>)
        [] code = "too_big" -> Words(<<"Too", "big">>)
        [] code = "invalid_enum_value" -> Words(<<"Invalid", "enum", "value">>)
        [] code = "invalid_string" -> Words(<<"Invalid">>)
        [] OTHER -> Words(<<"Invalid", "input">>)
  IN
    IF errors = <<>> THEN <<>>
    ELSE (IF Len(Head(errors).path) > 0
            THEN JoinPath(Head(errors).path) \o <<P(":"), SP>> ELSE <<>>)
           \o IssueMessage(Head(errors).code)
           \o (IF Len(errors) > 1 THEN <<P(";"), SP>> ELSE <<>>)
           \o formatZodErrors(Tail(errors))

\* validateScrapeOptions, validateMapOptions, validateCrawlOptions and
\* validateConfig: schema.parse(options) in a try whose catch rethrows the
\* ZodError as a BlessCrawlValidationError
Validate(schema, what, options) ==
  LET issues == ParseIssues(schema, options) IN
  IF issues = <<>> THEN Return(ZodOutput(schema, options))
  ELSE Throw(BlessCrawlValidationError(
         Words(what \o <<"validation", "failed">>) \o <<P(":"), SP>>
           \o formatZodErrors(issues),
         ZodError(issues)))
validateScrapeOptions(options) == Validate(ScrapeOptionsSchema, <<"Scrape", "options">>, options)
validateMapOptions(options) == Validate(MapOptionsSchema, <<"Map", "options">>, options)
validateCrawlOptions(options) == Validate(CrawlOptionsSchema, <<"Crawl", "options">>, options)
validateConfig(config) == Validate(ConfigSchema, <<"Configuration">>, config)

-----------------------------------------------------------------------------
(* The client and its calls *)

VARIABLES
  globalBlessCrawl,  \* typeof globalThis.BlessCrawl === 'function', now
  env,               \* process.env
  client,            \* the BlessCrawl instance
  calls,             \* the calls of scrape, map and crawl, by call
  requests,          \* the HTTP requests sent, by call
  bindingCalls,      \* the method calls made on the host binding, by call
  reader,            \* a run of readInput: what is left on stdin, what was read
  entry,             \* a run of main: the callback, its result, what was written
  build              \* the runs of the build command and the files it installs

vars ==
  <<globalBlessCrawl, env, client, calls, requests, bindingCalls, reader, entry, build>>

BLESS_ENDPOINT_URL ==
  <<W("http"), P(":"), P("/"), P("/"), W("localhost"), P(":"), D(8081), P("/"),
    W("api"), P("/"), W("v"), D(1), P("/"), W("functions"), P("/"), W("execute")>>
BLESS_FUNCTION_ID ==
  <<W("bafybeibng"), D(4), W("fppjveq"), D(7), W("bsf"), D(3), W("lcj"), D(7), W("pahcn"),
    D(3353), W("dkt"), D(4), W("utmnzm"), D(63), W("majnkq"), D(6), W("dzkm")>>

NoClient ==
  [state |-> "none", _isWasmMode |-> FALSE, _instance |-> Undefined,
   _config |-> Undefined, endpoint_url |-> Undefined, function_id |-> Undefined,
   error |-> Undefined]

\* a constructor that lets the environment win over the config
Constructor_EnvFirst(config0, binding, e) ==
  LET config == IF config0.t = "undefined" THEN Obj(<<>>) ELSE config0
      validatedConfig == validateConfig(config)
  IN IF validatedConfig.kind = "throw"
       THEN [NoClient EXCEPT !.state = "threw", !.error = validatedConfig.v]
       ELSE [state |-> "constructed",
             _isWasmMode |-> binding,
             _instance |-> IF binding THEN Obj(<<Prop(K("config"), validatedConfig.v)>>)
                           ELSE Undefined,
             _config |-> validatedConfig.v,
             endpoint_url |->
               OrElse(OrElse(Get(e, Snake(<<"BLESS", "ENDPOINT", "URL">>)),
                             Get(config, Snake(<<"endpoint", "url">>))),
                      Str(BLESS_ENDPOINT_URL)),
             function_id |->
               OrElse(OrElse(Get(e, Snake(<<"BLESS", "FUNCTION", "ID">>)),
                             Get(config, Snake(<<"function", "id">>))),
                      Str(BLESS_FUNCTION_ID)),
             error |-> Undefined]

\* new BlessCrawl(config), with the global binding present or not and the
\* environment e
Constructor(config0, binding, e) ==
  LET config == IF config0.t = "undefined" THEN Obj(<<>>) ELSE config0
      validatedConfig == validateConfig(config)
  IN IF validatedConfig.kind = "throw"
       THEN [NoClient EXCEPT !.state = "threw", !.error = validatedConfig.v]
       ELSE [state |-> "constructed",
             _isWasmMode |-> binding,
             _instance |-> IF binding THEN Obj(<<Prop(K("config"), validatedConfig.v)>>)
                           ELSE Undefined,
             _config |-> validatedConfig.v,
             endpoint_url |->
               OrElse(OrElse(Get(config, Snake(<<"endpoint", "url">>)),
                             Get(e, Snake(<<"BLESS", "ENDPOINT", "URL">>))),
                      Str(BLESS_ENDPOINT_URL)),
             function_id |->
               OrElse(OrElse(Get(config, Snake(<<"function", "id">>)),
                             Get(e, Snake(<<"BLESS", "FUNCTION", "ID">>))),
                      Str(BLESS_FUNCTION_ID)),
             error |-> Undefined]

\* a getter that looks the global binding up at each read
runtimeMode_ReadsGlobal == IF globalBlessCrawl THEN "wasm" ELSE "http"

\* get runtimeMode
runtimeMode == IF client._isWasmMode THEN "wasm" ELSE "http"

IdleCall ==
  [pc |-> "idle", operation |-> "", url |-> Undefined, options |-> Undefined,
   config |-> Undefined, response |-> Undefined, outcome |-> [kind |-> "pending"]]

\* the guard without the trimming
UrlGuardFails_NoTrim(url) == TypeOf(url) # "string" \/ url.s = <<>>

\* if (typeof url !== 'string' || url.trim() === '')
UrlGuardFails(url) == TypeOf(url) # "string" \/ Trim(url.s) = <<>>

\* {...a, ...b}
RECURSIVE PutAll(_, _)
PutAll(o, ps) == IF ps = <<>> THEN o ELSE PutAll(PutOwn(o, Head(ps)), Tail(ps))
Spread(a, b) == Obj(PutAll(a.o, b.o))

\* const {k1, k2, ...rest} = options: the named keys picked, set or not, and
\* the rest
RECURSIVE Pick(_, _)
Pick(options, keys) ==
  IF keys = <<>> THEN <<>>
  ELSE <<Prop(Head(keys), Get(options, Head(keys)))>> \o Pick(options, Tail(keys))
Rest(options, keys) ==
  IF options.t = "obj"
    THEN Obj(SelectSeq(options.o, LAMBDA p : \A i \in 1..Len(keys) : keys[i] # p.k))
    ELSE Obj(<<>>)

MapKeys ==
  <<Snake(<<"link", "types">>), Snake(<<"base", "url">>), Snake(<<"filter", "extensions">>)>>
CrawlKeys ==
  <<K("limit"), Snake(<<"max", "depth">>), Snake(<<"exclude", "paths">>),
    Snake(<<"include", "paths">>), Snake(<<"follow", "external">>),
    Snake(<<"delay", "between", "requests">>), Snake(<<"parallel", "requests">>)>>

\* The statements of scrape, map and crawl before the dispatch: the URL guard,
\* then the validation; what is returned is the config to dispatch.
\* An options argument that is undefined takes the default {}.
Defaulted(options) == IF options.t = "undefined" THEN Obj(<<>>) ELSE options

scrapePrepare(url, options0) ==
  LET options == Defaulted(options0) IN
  IF UrlGuardFails(url)
    THEN Throw(BlessCrawlError(UrlMustBeNonEmpty, Undefined, Undefined))
    ELSE validateScrapeOptions(options)

\* map whose split forgets base_url
mapPrepare_DropsBaseUrl(url, options0) ==
  LET options == Defaulted(options0) IN
  IF UrlGuardFails(url)
    THEN Throw(BlessCrawlError(UrlMustBeNonEmpty, Undefined, Undefined))
  ELSE IF options.t = "null"
    THEN Throw(Error("TypeError", Words(<<"Cannot", "destructure", "null">>)))
  ELSE LET validatedScrapeOptions == validateScrapeOptions(Rest(options, MapKeys)) IN
    IF validatedScrapeOptions.kind = "throw" THEN validatedScrapeOptions
    ELSE LET validatedMapOptions ==
               validateMapOptions(Obj(Pick(options, <<MapKeys[1], MapKeys[3]>>))) IN
      IF validatedMapOptions.kind = "throw" THEN validatedMapOptions
      ELSE Return(Spread(validatedScrapeOptions.v, validatedMapOptions.v))

\* map: the options are split, the scrape part is validated, then the map part,
\* and the two are recombined
mapPrepare(url, options0) ==
  LET options == Defaulted(options0) IN
  IF UrlGuardFails(url)
    THEN Throw(BlessCrawlError(UrlMustBeNonEmpty, Undefined, Undefined))
  ELSE IF options.t = "null"
    THEN Throw(Error("TypeError", Words(<<"Cannot", "destructure", "null">>)))
  ELSE LET validatedScrapeOptions == validateScrapeOptions(Rest(options, MapKeys)) IN
    IF validatedScrapeOptions.kind = "throw" THEN validatedScrapeOptions
    ELSE LET validatedMapOptions == validateMapOptions(Obj(Pick(options, MapKeys))) IN
      IF validatedMapOptions.kind = "throw" THEN validatedMapOptions
      ELSE Return(Spread(validatedScrapeOptions.v, validatedMapOptions.v))

\* crawl without the validation of the options of its own
crawlPrepare_OwnUnchecked(url, options0) ==
  LET options == Defaulted(options0) IN
  IF UrlGuardFails(url)
    THEN Throw(BlessCrawlError(UrlMustBeNonEmpty, Undefined, Undefined))
  ELSE IF options.t = "null"
    THEN Throw(Error("TypeError", Words(<<"Cannot", "destructure", "null">>)))
  ELSE LET validatedScrapeOptions == validateScrapeOptions(Rest(options, CrawlKeys)) IN
    IF validatedScrapeOptions.kind = "throw" THEN validatedScrapeOptions
    ELSE Return(Spread(validatedScrapeOptions.v, Obj(Pick(options, CrawlKeys))))

\* crawl: as map, with the crawl part
crawlPrepare(url, options0) ==
  LET options == Defaulted(options0) IN
  IF UrlGuardFails(url)
    THEN Throw(BlessCrawlError(UrlMustBeNonEmpty, Undefined, Undefined))
  ELSE IF options.t = "null"
    THEN Throw(Error("TypeError", Words(<<"Cannot", "destructure", "null">>)))
  ELSE LET validatedScrapeOptions == validateScrapeOptions(Rest(options, CrawlKeys)) IN
    IF validatedScrapeOptions.kind = "throw" THEN validatedScrapeOptions
    ELSE LET validatedCrawlOptions == validateCrawlOptions(Obj(Pick(options, CrawlKeys))) IN
      IF validatedCrawlOptions.kind = "throw" THEN validatedCrawlOptions
      ELSE Return(Spread(validatedScrapeOptions.v, validatedCrawlOptions.v))

Prepare(operation, url, options) ==
  CASE operation = "scrape" -> scrapePrepare(url, options)
    [] operation = "map" -> mapPrepare(url, options)
    [] operation = "crawl" -> crawlPrepare(url, options)

\* a request whose stdin names scrape whatever the operation is
HttpRequest_ScrapeOnly(operation, url, config) ==
  LET stdinInput == Obj(<<Prop(K("operation"), Str(K("scrape"))),
                          Prop(K("url"), url),
                          Prop(K("config"), config)>>)
      requestBody ==
        Obj(<<Prop(Snake(<<"function", "id">>), client.function_id),
              Prop(K("method"), Str(<<W("blessnet"), P("."), W("wasm")>>)),
              Prop(K("config"),
                   Obj(<<Prop(K("permissions"), Arr(<<url>>)),
                         Prop(K("stdin"), Str(JSONstringify(stdinInput)))>>))>>)
  IN [url |-> client.endpoint_url, method |-> "POST",
      contentType |-> <<W("application"), P("/"), W("json")>>,
      body |-> JSONstringify(requestBody)]

\* makeHttpRequest, up to the call of fetch: the request that is sent
HttpRequest(operation, url, config) ==
  LET stdinInput == Obj(<<Prop(K("operation"), Str(K(operation))),
                          Prop(K("url"), url),
                          Prop(K("config"), config)>>)
      requestBody ==
        Obj(<<Prop(Snake(<<"function", "id">>), client.function_id),
              Prop(K("method"), Str(<<W("blessnet"), P("."), W("wasm")>>)),
              Prop(K("config"),
                   Obj(<<Prop(K("permissions"), Arr(<<url>>)),
                         Prop(K("stdin"), Str(JSONstringify(stdinInput)))>>))>>)
  IN [url |-> client.endpoint_url, method |-> "POST",
      contentType |-> <<W("application"), P("/"), W("json")>>,
      body |-> JSONstringify(requestBody)]

\* a dispatch that looks the global binding up at each call
UsesBinding_ReadsGlobal == globalBlessCrawl

\* if (this._isWasmMode && this._instance)
UsesBinding == client._isWasmMode /\ Truthy(client._instance)

\* A call of scrape, map or crawl, up to its first await: the call rejects
\* from the guard or the validation, or it dispatches to the binding or to
\* the endpoint.
Call(c, operation, url, options) ==
  /\ client.state = "constructed"
  /\ calls[c].pc = "idle"
  /\ LET prepared == Prepare(operation, url, options)
         started == [calls[c] EXCEPT !.operation = operation, !.url = url,
                                     !.options = options]
     IN IF prepared.kind = "throw"
          THEN /\ calls' = [calls EXCEPT ![c] =
                              [started EXCEPT !.pc = "done", !.outcome = prepared]]
               /\ UNCHANGED <<requests, bindingCalls>>
        ELSE IF UsesBinding
          THEN /\ calls' = [calls EXCEPT ![c] =
                              [started EXCEPT !.pc = "binding", !.config = prepared.v]]
               /\ bindingCalls' = [bindingCalls EXCEPT ![c] =
                    Append(@, [method |-> operation, url |-> url, options |-> prepared.v])]
               /\ UNCHANGED requests
        ELSE /\ calls' = [calls EXCEPT ![c] =
                            [started EXCEPT !.pc = "fetch", !.config = prepared.v]]
             /\ requests' = [requests EXCEPT ![c] =
                  Append(@, HttpRequest(operation, url, prepared.v))]
             /\ UNCHANGED bindingCalls
  /\ UNCHANGED <<globalBlessCrawl, env, client,
                 reader, entry, build>>

scrape(c, url, options) == Call(c, "scrape", url, options)
map(c, url, options) == Call(c, "map", url, options)
crawl(c, url, options) == Call(c, "crawl", url, options)

\* what fetch settles with: a rejection, or a response
Rejection(reason) ==
  [rejected |-> TRUE, reason |-> reason, ok |-> FALSE, status |-> 0,
   statusText |-> <<>>, readable |-> FALSE, body |-> <<>>]
Response(status, statusText, readable, body) ==
  [rejected |-> FALSE, reason |-> Undefined, ok |-> status \in 200..299,
   status |-> status, statusText |-> statusText, readable |-> readable, body |-> body]

\* makeHttpRequest from "const httpResult = await response.json()" on
AfterJson(response) ==
  LET httpResult == ResponseJson(response) IN
  IF httpResult.kind = "throw" THEN CatchHttp(httpResult.v)
  ELSE LET decoded == DecodeHttpResult(httpResult.v) IN
    IF decoded.kind = "throw" THEN CatchHttp(decoded.v) ELSE decoded

\* a fetch that is tried once more after a rejection
FetchSettles_Retries(c, response) ==
  /\ calls[c].pc = "fetch"
  /\ LET checked == CheckResponseOk(response) IN
     IF response.rejected /\ Len(requests[c]) < 2
       THEN /\ requests' = [requests EXCEPT ![c] = Append(@, @[1])]
            /\ UNCHANGED calls
     ELSE /\ calls' = [calls EXCEPT ![c] =
               IF response.rejected
                 THEN [@ EXCEPT !.pc = "done", !.response = response,
                                !.outcome = CatchHttp(response.reason)]
               ELSE IF checked.kind = "throw"
                 THEN [@ EXCEPT !.pc = "done", !.response = response,
                                !.outcome = CatchHttp(checked.v)]
               ELSE [@ EXCEPT !.pc = "json", !.response = response]]
          /\ UNCHANGED requests
  /\ UNCHANGED <<globalBlessCrawl, env, client, bindingCalls,
                 reader, entry, build>>

\* a reply that settles every fetch in flight
FetchSettles_SettlesAll(c, response) ==
  /\ calls[c].pc = "fetch"
  /\ LET checked == CheckResponseOk(response) IN
     calls' = [d \in DOMAIN calls |->
       IF calls[d].pc # "fetch" THEN calls[d]
       ELSE IF response.rejected
         THEN [calls[d] EXCEPT !.pc = "done", !.response = response,
                               !.outcome = CatchHttp(response.reason)]
       ELSE IF checked.kind = "throw"
         THEN [calls[d] EXCEPT !.pc = "done", !.response = response,
                               !.outcome = CatchHttp(checked.v)]
       ELSE [calls[d] EXCEPT !.pc = "json", !.response = response]]
  /\ UNCHANGED <<globalBlessCrawl, env, client, requests, bindingCalls,
                 reader, entry, build>>

\* The promise of fetch settles: a rejection and a status that is not ok end
\* the call in the catch clause; otherwise the body is asked for.
FetchSettles(c, response) ==
  /\ calls[c].pc = "fetch"
  /\ LET checked == CheckResponseOk(response) IN
     calls' = [calls EXCEPT ![c] =
       IF response.rejected
         THEN [@ EXCEPT !.pc = "done", !.response = response,
                        !.outcome = CatchHttp(response.reason)]
       ELSE IF checked.kind = "throw"
         THEN [@ EXCEPT !.pc = "done", !.response = response,
                        !.outcome = CatchHttp(checked.v)]
       ELSE [@ EXCEPT !.pc = "json", !.response = response]]
  /\ UNCHANGED <<globalBlessCrawl, env, client, requests, bindingCalls,
                 reader, entry, build>>

\* The promise of response.json() settles and the reply is decoded.
JsonSettles(c) ==
  /\ calls[c].pc = "json"
  /\ calls' = [calls EXCEPT ![c] =
       [@ EXCEPT !.pc = "done", !.outcome = AfterJson(calls[c].response)]]
  /\ UNCHANGED <<globalBlessCrawl, env, client, requests, bindingCalls,
                 reader, entry, build>>

\* a catch clause that keeps the thrown value as the cause
CatchBinding_KeepsCause(operation, error) ==
  Throw(BlessCrawlError(
    IF InstanceOfError(error) THEN error.message
    ELSE Words(<<"Unknown", "error", "during", operation, "operation">>),
    Undefined, error))

\* the catch clause around the call of the binding's method
CatchBinding(operation, error) ==
  Throw(BlessCrawlError(
    IF InstanceOfError(error) THEN error.message
    ELSE Words(<<"Unknown", "error", "during", operation, "operation">>),
    Undefined, Undefined))

\* a settling that gives the handle up after a failure of the binding
BindingSettles_DropsHandle(c, settled) ==
  /\ calls[c].pc = "binding"
  /\ calls' = [calls EXCEPT ![c] =
       [@ EXCEPT !.pc = "done", !.response = settled,
                 !.outcome = IF settled.kind = "throw"
                               THEN CatchBinding(calls[c].operation, settled.v)
                               ELSE settled]]
  /\ client' = IF settled.kind = "throw"
                 THEN [client EXCEPT !._instance = Undefined] ELSE client
  /\ UNCHANGED <<globalBlessCrawl, env, requests, bindingCalls,
                 reader, entry, build>>

\* The promise of the host binding's method settles: settled is what the
\* method returns (Return) or throws (Throw).
BindingSettles(c, settled) ==
  /\ calls[c].pc = "binding"
  /\ calls' = [calls EXCEPT ![c] =
       [@ EXCEPT !.pc = "done", !.response = settled,
                 !.outcome = IF settled.kind = "throw"
                               THEN CatchBinding(calls[c].operation, settled.v)
                               ELSE settled]]
  /\ UNCHANGED <<globalBlessCrawl, env, client, requests, bindingCalls,
                 reader, entry, build>>

-----------------------------------------------------------------------------
(* The replies of the remote endpoint *)

\* an object of the properties whose value is not Undefined: a JSON text
\* holds no undefined
ObjOf(props) == Obj(Written(props))

ExampleUrl == <<W("https"), P(":"), P("/"), P("/"), W("example"), P("."), W("com")>>

\* a ScrapeData and a MapData
ScrapeData ==
  Obj(<<Prop(K("success"), Bool(TRUE)), Prop(K("timestamp"), Num(1)),
        Prop(K("format"), Str(K("markdown"))), Prop(K("content"), Str(K("hi"))),
        Prop(K("metadata"),
             Obj(<<Prop(K("url"), Str(ExampleUrl)),
                   Prop(Snake(<<"status", "code">>), Num(200))>>))>>)
MapData ==
  Obj(<<Prop(K("url"), Str(ExampleUrl)), Prop(K("links"), Arr(<<>>)),
        Prop(Snake(<<"total", "links">>), Num(0)), Prop(K("timestamp"), Num(1))>>)

InnerDetails == Obj(<<Prop(K("retry"), Bool(FALSE))>>)

StdinOutput(success, data, error) ==
  ObjOf(<<Prop(K("success"), success), Prop(K("operation"), Str(K("scrape"))),
          Prop(K("url"), Str(ExampleUrl)), Prop(K("data"), data),
          Prop(K("error"), error)>>)

GoodStdinOutput == StdinOutput(Bool(TRUE), ScrapeData, Undefined)

GoodStdout == Str(JSONstringify(GoodStdinOutput))

ResultOf(exit_code, stderr, stdout) ==
  ObjOf(<<Prop(K("stdout"), stdout), Prop(K("stderr"), stderr),
          Prop(kExitCode, exit_code)>>)

GoodResult == ResultOf(Num(0), Str(<<>>), GoodStdout)

\* the length of the longest results array of a reply
MaxResults == 2

RECURSIVE ArraysOf(_, _)
\* the arrays of n values of S
ArraysOf(S, n) ==
  IF n = 0 THEN {<<>>} ELSE {<<x>> \o a : x \in S, a \in ArraysOf(S, n - 1)}

HttpResultOf(code, results) ==
  ObjOf(<<Prop(K("code"), code), Prop(K("results"), results)>>)

GoodHttpResult ==
  HttpResultOf(Str(<<D(200)>>), Arr(<<ObjOf(<<Prop(K("result"), GoodResult)>>)>>))

\* what fetch can settle with
Responses ==
  LET
    \* What the stdout of the function can parse to.  In the values of the data,
    \* success and error fields, Undefined stands for a field that is absent.
    StdinOutputs ==
      LET DataValues ==
            {Undefined, Null, Bool(FALSE), Num(0), Str(<<>>), ScrapeData, MapData, Arr(<<>>),
             Str(K("text")), Num(7)}
          TruthySuccess == {Bool(TRUE), Num(1), Str(K("yes"))}
          FalsySuccess == {Undefined, Bool(FALSE), Num(0), Null, Str(<<>>)}
          InnerErrors ==
            {Undefined, Null, Obj(<<>>), Str(K("failed")),
             Obj(<<Prop(K("message"), Str(Words(<<"page", "not", "found">>))),
                   Prop(K("code"), Str(Snake(<<"NOT", "FOUND">>))),
                   Prop(K("details"), InnerDetails)>>),
             Obj(<<Prop(K("message"), Str(Words(<<"page", "not", "found">>)))>>),
             Obj(<<Prop(K("code"), Str(Snake(<<"NOT", "FOUND">>)))>>),
             Obj(<<Prop(K("details"), InnerDetails)>>),
             Obj(<<Prop(K("message"), Str(<<>>)), Prop(K("code"), Str(<<>>)),
                   Prop(K("details"), Null)>>),
             Obj(<<Prop(K("message"), Num(404)), Prop(K("code"), Num(404)),
                   Prop(K("details"), Num(0))>>)}
      IN {StdinOutput(s, d, Undefined) : s \in TruthySuccess, d \in DataValues}
           \cup {StdinOutput(Bool(TRUE), d, Obj(<<>>)) : d \in {Undefined, ScrapeData}}
           \cup {StdinOutput(s, d, e) : s \in FalsySuccess, d \in {Undefined, ScrapeData},
                                        e \in InnerErrors}
           \cup {Null, Num(5), Num(0), Str(K("done")), Bool(TRUE), Bool(FALSE), Arr(<<>>),
                 Arr(<<GoodStdinOutput>>)}
    \* texts that are no JSON
    MalformedTexts ==
      {<<>>, <<SP>>, <<W("oops")>>, <<P("{")>>,
       <<P("{"), Q(K("success")), P(":"), W("true"), P(",")>>,
       <<P("<"), W("html"), P(">")>>}
    \* the values of results[0].result.stdout
    StdoutFields ==
      {Str(t) : t \in {JSONstringify(o) : o \in StdinOutputs} \cup MalformedTexts}
        \cup {Undefined, Null, Num(0), Num(7), Bool(TRUE), GoodStdinOutput, Arr(<<>>)}
    \* the values of results[0].result
    ResultFields ==
      LET StdoutSamples == {GoodStdout, Undefined, Str(<<>>), Str(<<W("oops")>>)}
          BadExitCodes ==
            {Undefined, Null, Num(1), Num(-1), Num(137), Str(<<D(0)>>), Bool(FALSE)}
          Stderrs == {Undefined, Null, Str(<<>>), Str(K("boom")), Num(0)}
      IN {ResultOf(Num(0), e, s) : e \in {Undefined, Str(K("warning"))}, s \in StdoutFields}
           \cup {ResultOf(x, e, s) : x \in BadExitCodes, e \in Stderrs, s \in StdoutSamples}
           \cup {Undefined, Null, Num(0), Str(<<>>), Bool(FALSE), Bool(TRUE), Num(5),
                 Str(K("ok")), Arr(<<>>), Obj(<<>>)}
    \* the values of results[0]
    FirstResults ==
      {ObjOf(<<Prop(K("result"), r)>>) : r \in ResultFields}
        \cup {Null, Num(0), Num(5), Str(<<>>), Str(K("first")), Bool(FALSE), Arr(<<>>)}
    \* the values of the results field
    ResultsFields ==
      LET ResultSamples ==
            {GoodResult, Undefined, ResultOf(Num(1), Str(K("boom")), GoodStdout)}
      IN {Arr(<<f>>) : f \in FirstResults}
           \cup UNION {{Arr(<<f>> \o a) :
                          f \in {ObjOf(<<Prop(K("result"), r)>>) : r \in ResultSamples},
                          a \in ArraysOf({Null, ObjOf(<<Prop(K("result"), GoodResult)>>)}, n)}
                       : n \in 1..(MaxResults - 1)}
           \cup {Undefined, Null, Arr(<<>>), Obj(<<>>), Num(1), Str(K("none")), Bool(TRUE),
                 ObjOf(<<Prop(K("result"), GoodResult)>>)}
    \* what the body of the reply can parse to
    HttpResults ==
      LET ResultsSamples ==
            {Arr(<<ObjOf(<<Prop(K("result"), GoodResult)>>)>>), Undefined, Arr(<<>>),
             Arr(<<ObjOf(<<Prop(K("result"), ResultOf(Num(1), Undefined, GoodStdout))>>)>>)}
          BadCodes ==
            {Undefined, Null, Num(200), Str(<<D(500)>>), Str(<<>>), Str(<<D(200), SP>>)}
      IN {HttpResultOf(Str(<<D(200)>>), r) : r \in ResultsFields}
           \cup {HttpResultOf(c, r) : c \in BadCodes, r \in ResultsSamples}
           \cup {Null, Num(0), Num(5), Str(<<>>), Str(K("ok")), Bool(TRUE), Bool(FALSE),
                 Arr(<<>>), Arr(<<GoodHttpResult>>)}
  IN
    {Response(200, K("OK"), TRUE, b) :
       b \in {JSONstringify(r) : r \in HttpResults} \cup MalformedTexts}
      \cup {Response(s, K("Error"), TRUE, b) :
              s \in {404, 500, 302}, b \in {JSONstringify(GoodHttpResult), <<W("oops")>>}}
      \cup {Response(201, K("Created"), TRUE, JSONstringify(GoodHttpResult)),
            Response(200, K("OK"), FALSE, JSONstringify(GoodHttpResult)),
            Response(500, K("Error"), FALSE, <<>>)}
      \cup {Rejection(Error("TypeError", Words(<<"fetch", "failed">>))),
            Rejection(Error("AbortError", Words(<<"aborted">>))),
            Rejection(Str(K("offline")))}

-----------------------------------------------------------------------------
(* The decoding of the replies: one call of a client in remote mode, with a
   URL and options that pass the guard and the validation, and every reply *)

\* the one call of a behaviour
OneCall == {1}

DecodeInit ==
  /\ globalBlessCrawl = FALSE
  /\ env = Obj(<<>>)
  /\ client = Constructor(Undefined, FALSE, Obj(<<>>))
  /\ calls = [c \in OneCall |-> IdleCall]
  /\ requests = [c \in OneCall |-> <<>>]
  /\ bindingCalls = [c \in OneCall |-> <<>>]
  /\ reader = <<>> /\ entry = <<>> /\ build = <<>>

DecodeNext ==
  LET DecodeOptions ==
        {Undefined,
         Obj(<<Prop(K("format"), Str(K("markdown"))), Prop(K("timeout"), Num(20000))>>)}
  IN \E c \in OneCall :
       \/ \E options \in DecodeOptions : scrape(c, Str(ExampleUrl), options)
       \/ \E options \in DecodeOptions : map(c, Str(ExampleUrl), options)
       \/ \E options \in DecodeOptions : crawl(c, Str(ExampleUrl), options)
       \/ \E response \in Responses : FetchSettles(c, response)
       \/ JsonSettles(c)

DecodeSpec == DecodeInit /\ [][DecodeNext]_vars

-----------------------------------------------------------------------------
(* The URLs and the options of a call.  For every field an operation
   declares: values inside its bounds, values out of them or of another type. *)

Repeat(x, n) == [i \in 1..n |-> x]
\* a string of n letters
Letters(n) == Repeat(W("a"), n)

FieldCase(key, ok, good, bad) == [k |-> key, ok |-> ok, good |-> {ok} \cup good, bad |-> bad]

ScrapeCases ==
  LET
    Header(i) == Prop(<<W("X"), P("-"), W("h"), D(i)>>, Str(K("v")))
  IN
    <<FieldCase(K("timeout"), Num(20000), {Num(5000), Num(120000)},
                {Num(4999), Num(120001), Num(0), Num(-1), Frac(5000, 5),
                 Str(<<D(5000)>>), NaN} \cup {Null, Bool(TRUE), Obj(<<>>)}),
      FieldCase(Snake(<<"wait", "time">>), Num(0), {Num(20000)},
                {Num(-1), Num(20001), Frac(0, 5), Bool(TRUE)}),
      FieldCase(Snake(<<"include", "tags">>), Arr(<<Str(K("div")), Str(K("h1"))>>),
                {Arr(<<>>), Arr(Repeat(Str(K("p")), 50)),
                 Arr(<<Str(<<W("my"), P("-"), W("tag")>>)>>)},
                {Arr(Repeat(Str(K("p")), 51)), Arr(<<Str(<<>>)>>),
                 Arr(<<Str(<<D(1), W("a")>>)>>), Arr(<<Str(<<W("a"), SP, W("b")>>)>>),
                 Arr(<<Str(K("div")), Num(1)>>), Str(K("div"))} \cup {Null, Bool(TRUE), Obj(<<>>)}),
      FieldCase(Snake(<<"exclude", "tags">>), Arr(<<Str(K("script"))>>), {},
                {Arr(Repeat(Str(K("p")), 51)), Arr(<<Str(<<W("a"), P("_"), W("b")>>)>>), Num(0)}),
      FieldCase(Snake(<<"only", "main", "content">>), Bool(TRUE), {Bool(FALSE)},
                {Str(K("true")), Num(1), Null}),
      FieldCase(K("format"), Str(K("markdown")), {Str(K("html")), Str(K("json"))},
                {Str(K("xml")), Str(K("Markdown")), Str(<<>>), Num(1), Null}),
      FieldCase(K("viewport"),
                Obj(<<Prop(K("width"), Num(320)), Prop(K("height"), Num(240))>>),
                {Obj(<<>>), Obj(<<Prop(K("width"), Num(7680)), Prop(K("height"), Num(4320))>>)},
                {Obj(<<Prop(K("width"), Num(319))>>), Obj(<<Prop(K("width"), Num(7681))>>),
                 Obj(<<Prop(K("height"), Num(239))>>), Obj(<<Prop(K("height"), Num(4321))>>),
                 Obj(<<Prop(K("width"), Frac(800, 5))>>),
                 Obj(<<Prop(K("width"), Str(<<D(800)>>))>>),
                 Null, Num(800), Arr(<<>>)}),
      FieldCase(Snake(<<"user", "agent">>), Str(K("bot")), {Str(Letters(1)), Str(Letters(500))},
                {Str(<<>>), Str(Letters(501)), Num(1), Null}),
      FieldCase(K("headers"), Obj(<<Prop(K("Accept"), Str(K("text")))>>),
                {Obj(<<>>), Obj([i \in 1..20 |-> Header(i)]),
                 Obj(<<Prop(<<W("X"), P("_"), W("Id")>>, Str(<<>>))>>),
                 Obj(<<Prop(K("Accept"), Str(Letters(1000)))>>)},
                {Obj([i \in 1..21 |-> Header(i)]),
                 Obj(<<Prop(<<D(1), W("st")>>, Str(K("v")))>>),
                 Obj(<<Prop(<<W("a"), SP, W("b")>>, Str(K("v")))>>),
                 Obj(<<Prop(<<>>, Str(K("v")))>>),
                 Obj(<<Prop(Letters(101), Str(K("v")))>>),
                 Obj(<<Prop(K("Accept"), Str(Letters(1001)))>>),
                 Obj(<<Prop(K("Accept"), Num(1))>>),
                 Str(K("Accept")), Null, Arr(<<>>)})>>

MapCases ==
  LET
    Extension(n) == Str(<<P(".")>> \o Letters(n))
  IN
    <<FieldCase(Snake(<<"link", "types">>), Arr(<<Str(K("internal")), Str(K("external"))>>),
                {Arr(<<>>), Arr(Repeat(Str(K("anchor")), 10)),
                 Arr(<<Str(K("mailto")), Str(K("tel")), Str(K("file"))>>)},
                {Arr(Repeat(Str(K("anchor")), 11)), Arr(<<Str(K("image"))>>),
                 Arr(<<Num(1)>>), Str(K("internal")), Null}),
      FieldCase(Snake(<<"base", "url">>), Str(ExampleUrl), {Str(<<>>)},
                {Num(1), Null, Obj(<<>>)}),
      FieldCase(Snake(<<"filter", "extensions">>), Arr(<<Extension(3)>>),
                {Arr(<<>>), Arr(Repeat(Extension(1), 20)), Arr(<<Extension(10)>>),
                 Arr(<<Str(<<P("."), W("mp"), D(4)>>)>>)},
                {Arr(Repeat(Extension(1), 21)), Arr(<<Str(K("pdf"))>>),
                 Arr(<<Str(<<P(".")>>)>>), Arr(<<Extension(11)>>),
                 Arr(<<Str(<<P("."), W("a"), P("-"), W("b")>>)>>), Arr(<<Num(1)>>),
                 Extension(3)})>>

CrawlCases ==
  LET
    Path(n) == Str(<<P("/")>> \o Letters(n - 1))
  IN
    <<FieldCase(K("limit"), Num(10), {Num(1), Num(1000)},
                {Num(0), Num(1001), Frac(1, 5), Str(<<D(10)>>), Null}),
      FieldCase(Snake(<<"max", "depth">>), Num(2), {Num(1), Num(5)},
                {Num(6), Num(0), Frac(2, 5), Str(<<D(3)>>)}),
      FieldCase(Snake(<<"exclude", "paths">>), Arr(<<Path(6)>>),
                {Arr(<<>>), Arr(Repeat(Path(1), 100)), Arr(<<Path(200)>>)},
                {Arr(Repeat(Path(1), 101)), Arr(<<Str(<<>>)>>), Arr(<<Path(201)>>),
                 Arr(<<Num(1)>>), Path(6)}),
      FieldCase(Snake(<<"include", "paths">>), Arr(<<Path(5)>>), {},
                {Arr(Repeat(Path(1), 101)), Arr(<<Str(<<>>)>>), Null}),
      FieldCase(Snake(<<"follow", "external">>), Bool(FALSE), {Bool(TRUE)},
                {Str(K("no")), Num(0)}),
      FieldCase(Snake(<<"delay", "between", "requests">>), Num(1000), {Num(0), Num(30000)},
                {Num(-1), Num(30001), Frac(10, 5)}),
      FieldCase(Snake(<<"parallel", "requests">>), Num(2), {Num(1), Num(5)},
                {Num(0), Num(6), Str(<<D(2)>>)})>>

\* the fields an operation declares
CasesOf(operation) ==
  CASE operation = "scrape" -> ScrapeCases
    [] operation = "map" -> ScrapeCases \o MapCases
    [] operation = "crawl" -> ScrapeCases \o CrawlCases

MaxDepth6 == Prop(Snake(<<"max", "depth">>), Num(6))
Timeout4999 == Prop(K("timeout"), Num(4999))

\* The arguments of the calls of an operation: a URL that passes the guard
\* with every options, and a URL that does not with some.
ArgumentsOf(operation) ==
  LET
    \* The options of the calls of an operation: of one field, of every field
    \* with all inside their bounds or with one out of them, and some of fields
    \* the operation does not declare.
    OptionsOf ==
      LET cases == CasesOf(operation)
          OneField(bad) ==
            UNION {{Obj(<<Prop(cases[i].k, v)>>) :
                      v \in IF bad THEN cases[i].bad ELSE cases[i].good}
                   : i \in DOMAIN cases}
          EveryField == Obj([i \in DOMAIN cases |-> Prop(cases[i].k, cases[i].ok)])
          OneBadField ==
            UNION {{Obj([j \in DOMAIN cases |->
                           Prop(cases[j].k, IF j = i THEN v ELSE cases[j].ok)])
                    : v \in cases[i].bad} : i \in DOMAIN cases}
          Undeclared == Prop(K("colour"), Str(K("red")))
      IN {Undefined, Obj(<<>>), EveryField, Obj(<<Undeclared>>),
          Obj(<<Prop(K("timeout"), Undefined)>>),
          Obj(<<Undeclared, Timeout4999>>), Obj(<<MaxDepth6>>), Obj(<<MaxDepth6, Timeout4999>>),
          Obj(<<Prop(Snake(<<"link", "types">>), Str(K("all")))>>),
          Obj(<<Prop(K("format"), Str(K("markdown"))), Prop(K("timeout"), Num(20000))>>)}
           \cup OneField(FALSE) \cup OneField(TRUE) \cup OneBadField
  IN
    LET GoodUrls == {Str(ExampleUrl), Str(<<SP>> \o ExampleUrl \o <<SP, SP>>)}
        BadUrls ==
          {Undefined, Null, Num(5), Bool(TRUE), Arr(<<Str(ExampleUrl)>>), Obj(<<>>),
           Str(<<>>), Str(<<SP>>), Str(<<SP, SP, SP>>)}
        OptionsSamples ==
          {Undefined, Obj(<<>>), Null, Obj(<<Timeout4999>>), Obj(<<MaxDepth6>>),
           Obj(<<Prop(K("format"), Str(K("markdown")))>>)}
    IN (GoodUrls \X OptionsOf) \cup (BadUrls \X OptionsSamples)
         \cup ({Str(ExampleUrl)} \X {Null})

-----------------------------------------------------------------------------
(* The guard and the validation: one call of a client in either mode, with
   every URL and every options of the sets above *)

ValidateInit ==
  /\ globalBlessCrawl \in BOOLEAN
  /\ env = Obj(<<>>)
  /\ client = Constructor(Undefined, globalBlessCrawl, env)
  /\ calls = [c \in OneCall |-> IdleCall]
  /\ requests = [c \in OneCall |-> <<>>]
  /\ bindingCalls = [c \in OneCall |-> <<>>]
  /\ reader = <<>> /\ entry = <<>> /\ build = <<>>

ValidateNext ==
  LET \* what the method of the host binding settles with
      BindingResults ==
        {Return(ScrapeData), Return(MapData), Return(Undefined),
         Throw(Error("Error", Words(<<"page", "crashed">>))), Throw(Str(K("crashed"))),
         Throw(BlessCrawlError(Words(<<"inner">>), Str(HTTP_ERROR), Str(K("why"))))}
      ResponsesSamples ==
        {Response(200, K("OK"), TRUE, JSONstringify(GoodHttpResult)),
         Response(500, K("Error"), TRUE, <<W("oops")>>),
         Rejection(Error("TypeError", Words(<<"fetch", "failed">>)))}
  IN \E c \in OneCall :
       \/ \E args \in ArgumentsOf("scrape") : scrape(c, args[1], args[2])
       \/ \E args \in ArgumentsOf("map") : map(c, args[1], args[2])
       \/ \E args \in ArgumentsOf("crawl") : crawl(c, args[1], args[2])
       \/ \E response \in ResponsesSamples : FetchSettles(c, response)
       \/ JsonSettles(c)
       \/ \E settled \in BindingResults : BindingSettles(c, settled)

ValidateSpec == ValidateInit /\ [][ValidateNext]_vars

-----------------------------------------------------------------------------
(* The life of a client: it is constructed, with the global binding present
   or not, and then serves calls, which may overlap; the host may install or
   remove the global binding at any time. *)

\* the number of calls of a behaviour
MaxCalls == 2

\* new BlessCrawl(config)
Construct(config) ==
  /\ client.state = "none"
  /\ client' = Constructor(config, globalBlessCrawl, env)
  /\ UNCHANGED <<globalBlessCrawl, env, calls, requests, bindingCalls,
                 reader, entry, build>>

\* the host installs or removes globalThis.BlessCrawl
BindingChanges ==
  /\ globalBlessCrawl' = ~globalBlessCrawl
  /\ UNCHANGED <<env, client, calls, requests, bindingCalls,
                 reader, entry, build>>

Init ==
  /\ globalBlessCrawl \in BOOLEAN
  /\ env \in {Undefined,
              Obj(<<Prop(Snake(<<"BLESS", "ENDPOINT", "URL">>), Str(K("envhost"))),
                    Prop(Snake(<<"BLESS", "FUNCTION", "ID">>), Str(K("envid")))>>)}
  /\ client = NoClient
  /\ calls = [c \in 1..MaxCalls |-> IdleCall]
  /\ requests = [c \in 1..MaxCalls |-> <<>>]
  /\ bindingCalls = [c \in 1..MaxCalls |-> <<>>]
  /\ reader = <<>> /\ entry = <<>> /\ build = <<>>

Next ==
  LET Configs ==
        {Undefined, Null, Obj(<<Timeout4999>>),
         Obj(<<Prop(K("format"), Str(K("html"))), Prop(K("timeout"), Num(30000))>>),
         Obj(<<Prop(Snake(<<"endpoint", "url">>), Str(K("myhost"))),
               Prop(Snake(<<"function", "id">>), Str(K("myid")))>>),
         Obj(<<Prop(Snake(<<"endpoint", "url">>), Str(<<>>)),
               Prop(Snake(<<"function", "id">>), Str(<<>>))>>),
         Obj(<<Prop(Snake(<<"function", "id">>), Num(7))>>)}
      Arguments(operation) ==
        {<<Str(ExampleUrl), Undefined>>, <<Str(<<>>), Obj(<<>>)>>,
         <<Str(<<SP>> \o ExampleUrl),
           Obj(<<Prop(K("colour"), Str(K("red"))), Prop(K("timeout"), Num(20000)),
                 IF operation = "crawl" THEN Prop(Snake(<<"max", "depth">>), Num(2))
                 ELSE Prop(K("format"), Str(K("markdown"))),
                 Prop(Snake(<<"wait", "time">>), Undefined)>>)>>,
         <<Str(ExampleUrl), IF operation = "crawl" THEN Obj(<<MaxDepth6>>)
                            ELSE Obj(<<Timeout4999>>)>>}
      Replies ==
        {Response(200, K("OK"), TRUE, JSONstringify(GoodHttpResult)),
         Response(500, K("Error"), TRUE, <<W("oops")>>),
         Rejection(Error("TypeError", Words(<<"fetch", "failed">>)))}
      BindingResults ==
        {Return(ScrapeData), Throw(Error("Error", Words(<<"page", "crashed">>)))}
  IN \/ \E config \in Configs : Construct(config)
     \/ BindingChanges
     \/ \E c \in 1..MaxCalls :
          \* the calls are numbered in the order in which they are made
          /\ IF c = 1 THEN TRUE ELSE calls[c - 1].pc # "idle"
          /\ \/ \E args \in Arguments("scrape") : scrape(c, args[1], args[2])
             \/ \E args \in Arguments("map") : map(c, args[1], args[2])
             \/ \E args \in Arguments("crawl") : crawl(c, args[1], args[2])
     \/ \E c \in 1..MaxCalls :
          \/ \E response \in Replies : FetchSettles(c, response)
          \/ JsonSettles(c)
          \/ \E settled \in BindingResults : BindingSettles(c, settled)

Spec == Init /\ [][Next]_vars

-----------------------------------------------------------------------------
(* The entry point of a program: readInput, writeOutput and main *)

\* const chunkSize = 1024
chunkSize == 1024

\* One turn of the loop of readInput in which Javy.IO.readSync(0, buffer)
\* reads n bytes, n > 0: the bytes are kept as one more chunk.  A read gives
\* what is there, up to the size of the buffer.
readSync(n) ==
  /\ reader.pc = "reading"
  /\ n >= 1 /\ n <= chunkSize /\ n <= Len(reader.stdin)
  /\ reader' = [reader EXCEPT !.stdin = SubSeq(@, n + 1, Len(@)),
                              !.inputChunks = Append(@, SubSeq(reader.stdin, 1, n)),
                              !.totalBytes = @ + n]
  /\ UNCHANGED <<globalBlessCrawl, env, client, calls, requests, bindingCalls,
                 entry, build>>

\* The turn of the loop in which the read gives 0 bytes, and the rest of
\* readInput: the chunks are put together in their order, decoded and
\* parsed; a failure of JSON.parse is logged; args || {} is returned.
readInput ==
  /\ reader.pc = "reading"
  /\ reader.stdin = <<>>
  /\ LET RECURSIVE Assemble(_)
         Assemble(chunks) ==
           IF chunks = <<>> THEN <<>> ELSE Head(chunks) \o Assemble(Tail(chunks))
         finalBuffer == Assemble(reader.inputChunks)
         parsed == JSONparse(finalBuffer)
         args == IF parsed.ok THEN parsed.v ELSE Undefined
     IN reader' = [reader EXCEPT !.pc = "returned",
                                 !.logged = ~parsed.ok,
                                 !.returned = Obj(<<Prop(K("args"), OrElse(args, Obj(<<>>)))>>)]
  /\ UNCHANGED <<globalBlessCrawl, env, client, calls, requests, bindingCalls,
                 entry, build>>

\* writeOutput(output): the call of Javy.IO.writeSync it makes
writeOutput(output) == [fd |-> 2, buffer |-> JSONstringify(output)]

\* isPromiseCallback(cb), for a cb that is a function
isPromiseCallback(cb) == cb.length = 0

\* main(cb), up to its first await or to its end.  A callback is a function
\* that declares cb.length parameters, is async or not, and ends by
\* returning (or resolving with) a value or by throwing (or rejecting).
main(cb) ==
  /\ entry.pc = "idle"
  /\ LET threw == ~cb.async /\ cb.ends.kind = "throw"
         result == IF cb.async THEN [t |-> "promise"] ELSE cb.ends.v
         called == [entry EXCEPT !.cb = cb, !.called = @ + 1, !.completed = ~cb.async]
     IN entry' =
          IF threw THEN [called EXCEPT !.pc = "done", !.outcome = cb.ends]
          ELSE IF isPromiseCallback(cb) THEN [called EXCEPT !.pc = "await"]
          ELSE IF cb.async
            THEN [called EXCEPT !.pc = "adopt",
                                !.written = Append(@, writeOutput(result))]
          ELSE [called EXCEPT !.pc = "done", !.outcome = Return(result),
                              !.written = Append(@, writeOutput(result))]
  /\ UNCHANGED <<globalBlessCrawl, env, client, calls, requests, bindingCalls,
                 reader, build>>

\* What main waits for settles: the awaited result of the callback, after
\* which the value is written and returned, or the promise that main has
\* returned after writing.
CallbackSettles ==
  /\ entry.pc \in {"await", "adopt"}
  /\ entry' =
       IF entry.pc = "await" /\ entry.cb.ends.kind = "return"
         THEN [entry EXCEPT !.pc = "done", !.completed = TRUE,
                            !.outcome = entry.cb.ends,
                            !.written = Append(@, writeOutput(entry.cb.ends.v))]
         ELSE [entry EXCEPT !.pc = "done", !.completed = TRUE,
                            !.outcome = entry.cb.ends]
  /\ UNCHANGED <<globalBlessCrawl, env, client, calls, requests, bindingCalls,
                 reader, build>>

EntryInit ==
  LET Texts ==
        {<<>>, <<SP>>, <<W("oops")>>, <<P("{")>>,
         <<P("{"), Q(K("userId")), P(":"), D(1), P("}")>>,
         <<SP, P("{"), Q(K("a")), P(":"), W("true"), P("}"), SP>>,
         <<P("{"), P("}")>>, <<P("["), D(1), P(","), D(2), P("]")>>, <<P("["), P("]")>>,
         <<D(0)>>, <<D(7)>>, <<W("null")>>, <<W("false")>>, <<W("true")>>,
         <<Q(<<>>)>>, <<Q(K("text"))>>}
  IN /\ reader \in {[pc |-> "reading", stdin |-> t, inputChunks |-> <<>>,
                     totalBytes |-> 0, logged |-> FALSE, returned |-> Undefined]
                    : t \in Texts}
     /\ entry = [pc |-> "idle", cb |-> Undefined, called |-> 0, completed |-> FALSE,
                 written |-> <<>>, outcome |-> Undefined]
     /\ globalBlessCrawl = FALSE /\ env = Obj(<<>>) /\ client = NoClient
     /\ calls = <<>> /\ requests = <<>> /\ bindingCalls = <<>> /\ build = <<>>

EntryNext ==
  LET Ends == {Return(Obj(<<Prop(K("ok"), Bool(TRUE))>>)), Return(Obj(<<>>)),
               Throw(Error("Error", Words(<<"no", "luck">>)))}
      Callbacks == [length : 0..1, async : BOOLEAN, ends : Ends]
  IN \/ \E n \in 1..Len(reader.stdin) : readSync(n)
     \/ readInput
     \/ \E cb \in Callbacks : main(cb)
     \/ CallbackSettles

EntrySpec == EntryInit /\ [][EntryNext]_vars

-----------------------------------------------------------------------------
(* The build command and its --update option *)

\* const DEFAULT_JAVY_BLESS_PLUGINS_VERSION = 'v0.2.3'.  A version is written
\* with its leading v, when it has one, as a word of its own.
DEFAULT_JAVY_BLESS_PLUGINS_VERSION == <<W("v"), D(0), P("."), D(2), P("."), D(3)>>

\* installJavy(JAVY_PATH, forceUpdate): the files after it and what it did
installJavy(files, forceUpdate) ==
  IF files.javy /\ ~forceUpdate THEN [files |-> files, did |-> <<>>]
  ELSE [files |-> [files EXCEPT !.javy = TRUE],
        did |-> (IF files.javy THEN <<[op |-> "unlink", what |-> Str(K("javy"))]>>
                 ELSE <<>>)
                  \o <<[op |-> "download", what |-> Str(K("javy"))]>>]

\* a plugin installer that keeps the file that is there
installJavyBlessPlugins_KeepsFile(files, forceUpdate, version, releases) ==
  LET targetVersion == OrElse(version, Str(releases.latest))
      exists == targetVersion \in files.plugins
  IN IF exists
       THEN [files |-> files, did |-> <<>>, targetVersion |-> targetVersion,
             failed |-> FALSE]
     ELSE IF targetVersion \notin releases.all
       THEN [files |-> files, did |-> <<[op |-> "download", what |-> targetVersion]>>,
             targetVersion |-> targetVersion, failed |-> TRUE]
     ELSE [files |-> [files EXCEPT !.plugins = @ \cup {targetVersion}],
           did |-> <<[op |-> "download", what |-> targetVersion]>>,
           targetVersion |-> targetVersion, failed |-> FALSE]

\* installJavyBlessPlugins(PLUGINS_DIR, forceUpdate, version): the files
\* after it, what it did, the version it went for, and whether the download
\* failed (the release does not exist), which ends the process
installJavyBlessPlugins(files, forceUpdate, version, releases) ==
  LET targetVersion == OrElse(version, Str(releases.latest))
      exists == targetVersion \in files.plugins
      unlinked == IF exists THEN <<[op |-> "unlink", what |-> targetVersion]>> ELSE <<>>
  IN IF exists /\ ~forceUpdate
       THEN [files |-> files, did |-> <<>>, targetVersion |-> targetVersion,
             failed |-> FALSE]
     ELSE IF targetVersion \notin releases.all
       THEN [files |-> [files EXCEPT !.plugins = @ \ {targetVersion}],
             did |-> unlinked \o <<[op |-> "download", what |-> targetVersion]>>,
             targetVersion |-> targetVersion, failed |-> TRUE]
     ELSE [files |-> [files EXCEPT !.plugins = @ \cup {targetVersion}],
           did |-> unlinked \o <<[op |-> "download", what |-> targetVersion]>>,
           targetVersion |-> targetVersion, failed |-> FALSE]

\* the number of runs of the build command in a behaviour
MaxBuilds == 2

\* runBuildCommand(entry, outDir, outFile, update).  ready tells whether the
\* entry file exists and whether esbuild builds it.
runBuildCommand(update, ready) ==
  /\ Len(build.runs) < MaxBuilds
  /\ LET javy == installJavy(build.files, Truthy(update))
         versionToUse ==
           IF TypeOf(update) = "string"
             THEN (IF update.s # <<>> /\ Head(update.s) = W("v")
                     THEN update ELSE Str(<<W("v")>> \o update.s))
           ELSE IF Truthy(update) THEN Undefined
           ELSE Str(DEFAULT_JAVY_BLESS_PLUGINS_VERSION)
         plugins == installJavyBlessPlugins(javy.files, Truthy(update), versionToUse,
                                            build.releases)
         stopped(how) == [update |-> update, ended |-> how, did |-> <<>>,
                          targetVersion |-> Undefined, pluginPaths |-> <<>>]
     IN IF ready = "no entry"
          THEN build' = [build EXCEPT !.runs = Append(@, stopped("throw"))]
        ELSE IF ready = "no bundle"
          THEN build' = [build EXCEPT !.runs = Append(@, stopped("exit"))]
        ELSE build' =
          [build EXCEPT
             !.files = plugins.files,
             !.runs = Append(@,
               [update |-> update,
                ended |-> IF plugins.failed THEN "exit" ELSE "built",
                did |-> javy.did \o plugins.did,
                targetVersion |-> plugins.targetVersion,
                pluginPaths |-> IF plugins.failed THEN <<>>
                                ELSE <<plugins.targetVersion>>])]
  /\ UNCHANGED <<globalBlessCrawl, env, client, calls, requests, bindingCalls,
                 reader, entry>>

BuildInit ==
  LET Newer == Str(<<W("v"), D(0), P("."), D(3), P("."), D(0)>>)
      Pinned == Str(DEFAULT_JAVY_BLESS_PLUGINS_VERSION)
  IN /\ build \in [files : [javy : BOOLEAN, plugins : SUBSET {Pinned, Newer}],
                   releases : [latest : {Pinned.s, Newer.s}, all : {{Pinned, Newer}}],
                   runs : {<<>>}]
     /\ globalBlessCrawl = FALSE /\ env = Obj(<<>>) /\ client = NoClient
     /\ calls = <<>> /\ requests = <<>> /\ bindingCalls = <<>>
     /\ reader = <<>> /\ entry = <<>>

BuildNext ==
  LET Updates ==
        {Bool(FALSE), Undefined, Bool(TRUE), Str(<<>>),
         Str(<<D(0), P("."), D(3), P("."), D(0)>>),
         Str(<<W("v"), D(0), P("."), D(3), P("."), D(0)>>),
         Str(<<D(0), P("."), D(2), P("."), D(3)>>),
         Str(<<D(9), P("."), D(9), P("."), D(9)>>)}
  IN \E update \in Updates, ready \in {"ok", "no entry", "no bundle"} :
       runBuildCommand(update, ready)

BuildSpec == BuildInit /\ [][BuildNext]_vars

-----------------------------------------------------------------------------
(* Reading a call's reply and outcome, for the properties below *)

\* the text sub occurs in the text s
Includes(s, sub) ==
  \E i \in 1..(Len(s) - Len(sub) + 1) : SubSeq(s, i, i + Len(sub) - 1) = sub

CallIds == DOMAIN calls
Outcome(c) == calls[c].outcome
Reply(c) == calls[c].response

\* the call was sent to the endpoint and has ended
Answered(c) == calls[c].pc = "done" /\ requests[c] # <<>>

Rejects(c) == Outcome(c).kind = "throw"
Resolves(c) == Outcome(c).kind = "return"
\* the call rejects with a BlessCrawlError of this code
RejectsWith(c, code) ==
  /\ Rejects(c)
  /\ Outcome(c).v.t = "err"
  /\ Outcome(c).v.name = "BlessCrawlError"
  /\ Outcome(c).v.code = Str(code)

\* the reply, level by level; each is Undefined where the level above is
\* not there
BodyOf(c) == JSONparse(Reply(c).body)
HttpResultIn(c) == BodyOf(c).v
ResultsIn(c) == Get(HttpResultIn(c), K("results"))
FirstIn(c) == IF ResultsIn(c).t = "arr" /\ Len(ResultsIn(c).a) > 0
                THEN ResultsIn(c).a[1] ELSE Undefined
ResultIn(c) == Get(FirstIn(c), K("result"))
ExitCodeIn(c) == Get(ResultIn(c), kExitCode)
StderrIn(c) == Get(ResultIn(c), K("stderr"))
StdoutIn(c) == Get(ResultIn(c), K("stdout"))
StdoutParse(c) == IF StdoutIn(c).t = "str" THEN JSONparse(StdoutIn(c).s)
                  ELSE [ok |-> FALSE, v |-> Undefined]
StdinOutputIn(c) == StdoutParse(c).v
SuccessIn(c) == Get(StdinOutputIn(c), K("success"))
DataIn(c) == Get(StdinOutputIn(c), K("data"))
InnerErrorIn(c) == Get(StdinOutputIn(c), K("error"))

\* the reply passes the checks that come before the one named
StatusOk(c) == Answered(c) /\ ~Reply(c).rejected /\ Reply(c).ok
BodyParsed(c) == StatusOk(c) /\ Reply(c).readable /\ BodyOf(c).ok
PassesToCode(c) ==
  BodyParsed(c) /\ Truthy(HttpResultIn(c)) /\ TypeOf(HttpResultIn(c)) = "object"
PassesToResults(c) == PassesToCode(c) /\ Get(HttpResultIn(c), K("code")) = Str(<<D(200)>>)
PassesToFirst(c) ==
  PassesToResults(c) /\ ResultsIn(c).t = "arr" /\ Len(ResultsIn(c).a) > 0
PassesToExitCode(c) == PassesToFirst(c) /\ Truthy(FirstIn(c)) /\ Truthy(ResultIn(c))
PassesToStdout(c) == PassesToExitCode(c) /\ ExitCodeIn(c) = Num(0)
PassesToParse(c) == PassesToStdout(c) /\ StdoutIn(c).t = "str" /\ StdoutIn(c).s # <<>>
PassesToObject(c) == PassesToParse(c) /\ StdoutParse(c).ok
PassesToSuccess(c) ==
  PassesToObject(c) /\ Truthy(StdinOutputIn(c)) /\ TypeOf(StdinOutputIn(c)) = "object"
PassesToData(c) == PassesToSuccess(c) /\ Truthy(SuccessIn(c))

\* a JSON object: an object that is no array
IsJsonObject(v) == v.t = "obj"

-----------------------------------------------------------------------------
(* C3 *)

\* The code of the first check of the claim's list that the reply fails, <<>>
\* where it fails none.  The body check is the claim's: the body is a JSON
\* object.  The other checks are read as the decoder makes them.
FirstFailingCheck(c) ==
  IF ~StatusOk(c) THEN HTTP_ERROR
  ELSE IF ~Reply(c).readable THEN HTTP_ERROR
  ELSE IF ~(BodyOf(c).ok /\ IsJsonObject(HttpResultIn(c))) THEN RESPONSE_FORMAT_ERROR
  ELSE IF ~PassesToResults(c) THEN FUNCTION_EXECUTION_ERROR
  ELSE IF ~PassesToFirst(c) THEN NO_RESULTS_ERROR
  ELSE IF ~PassesToExitCode(c) THEN RESULT_FORMAT_ERROR
  ELSE IF ~PassesToStdout(c) THEN FUNCTION_EXIT_ERROR
  ELSE IF ~PassesToParse(c) THEN STDOUT_FORMAT_ERROR
  ELSE IF ~PassesToObject(c) THEN STDOUT_PARSE_ERROR
  ELSE IF ~PassesToSuccess(c) THEN STDIN_OUTPUT_FORMAT_ERROR
  ELSE IF ~PassesToData(c) THEN OPERATION_ERROR
  ELSE IF ~Truthy(DataIn(c)) THEN NO_DATA_ERROR
  ELSE <<>>

\* C3: the error of every remote reply is the error of the first check, in
\* the order status, body is a JSON object, code, results, result, exit code,
\* stdout is a string, stdout parses, parsed stdout is an object, success,
\* data, that the reply fails (at the success check the inner error may give
\* its own code); a reply that fails none resolves.
C3_FirstFailingCheckDecides ==
  \A c \in CallIds : Answered(c) =>
    LET code == FirstFailingCheck(c) IN
    IF code = <<>> THEN Resolves(c)
    ELSE IF code = OPERATION_ERROR
      THEN Rejects(c) /\ Outcome(c).v.name = "BlessCrawlError"
             /\ Outcome(c).v.code \in {Str(OPERATION_ERROR), OptGet(InnerErrorIn(c), K("code"))}
    ELSE RejectsWith(c, code)

-----------------------------------------------------------------------------
(* C4 *)

\* the reply is as C4 describes it, with a data field
SuccessfulReply(c) ==
  /\ StatusOk(c) /\ BodyParsed(c)
  /\ Get(HttpResultIn(c), K("code")) = Str(<<D(200)>>)
  /\ ResultsIn(c).t = "arr" /\ Len(ResultsIn(c).a) > 0
  /\ ExitCodeIn(c) = Num(0)
  /\ StdoutIn(c).t = "str" /\ StdoutParse(c).ok
  /\ StdinOutputIn(c).t = "obj"
  /\ Truthy(SuccessIn(c))
  /\ HasOwn(StdinOutputIn(c), K("data"))

\* C4 as claimed: a reply with ok status, code "200", a first result with exit
\* code 0 and a stdout that parses to an object with truthy success and a
\* data field resolves to that data value.
C4_AnyDataIsReturned ==
  \A c \in CallIds : SuccessfulReply(c) =>
    Resolves(c) /\ Outcome(c).v = DataIn(c)

\* C4 amended: such a reply whose data value is truthy (every result payload,
\* an object, is) resolves to exactly that data value, for scrape, map and
\* crawl.
C4_TruthyDataIsReturned ==
  \A c \in CallIds : (SuccessfulReply(c) /\ Truthy(DataIn(c))) =>
    Resolves(c) /\ Outcome(c).v = DataIn(c)

C4_Witness ==
  \E c \in CallIds :
    /\ SuccessfulReply(c) /\ DataIn(c) = MapData
    /\ calls[c].operation = "map"
    /\ Resolves(c) /\ Outcome(c).v = MapData

-----------------------------------------------------------------------------
(* C5 *)

\* C5: a reply that passes the checks up to the exit code and whose exit code
\* is not 0 rejects with FUNCTION_EXIT_ERROR, the cause is results[0].result,
\* and the message holds the exit code and the stderr text, or 'No error
\* details available' where stderr is absent.
C5_ExitCodeError ==
  \A c \in CallIds : (PassesToExitCode(c) /\ ExitCodeIn(c) # Num(0)) =>
    /\ RejectsWith(c, FUNCTION_EXIT_ERROR)
    /\ Outcome(c).v.cause = ResultIn(c)
    /\ Includes(Outcome(c).v.message, TemplateString(ExitCodeIn(c)))
    /\ (StderrIn(c).t = "str" => Includes(Outcome(c).v.message, StderrIn(c).s))
    /\ (~HasOwn(ResultIn(c), K("stderr")) =>
          Includes(Outcome(c).v.message, NoErrorDetails))

C5_Witness ==
  \E c \in CallIds :
    /\ PassesToExitCode(c) /\ ExitCodeIn(c) = Num(1) /\ StderrIn(c) = Str(K("boom"))
    /\ RejectsWith(c, FUNCTION_EXIT_ERROR)
    /\ Includes(Outcome(c).v.message, <<D(1)>>)
    /\ Includes(Outcome(c).v.message, K("boom"))

-----------------------------------------------------------------------------
(* C6 *)

\* C6: a reply with ok status whose body is no JSON object (no JSON text, or
\* a JSON null, number, string, boolean or array) rejects with
\* RESPONSE_FORMAT_ERROR.
C6_BodyNotAnObject ==
  \A c \in CallIds :
    (StatusOk(c) /\ Reply(c).readable
       /\ ~(BodyOf(c).ok /\ IsJsonObject(HttpResultIn(c)))) =>
      RejectsWith(c, RESPONSE_FORMAT_ERROR)

-----------------------------------------------------------------------------
(* C7 *)

\* the cause of a STDOUT_PARSE_ERROR: {stdout, parseError}
ParseCause(c) ==
  /\ Outcome(c).v.cause.t = "obj"
  /\ Get(Outcome(c).v.cause, K("stdout")) = StdoutIn(c)
  /\ HasOwn(Outcome(c).v.cause, K("parseError"))

\* C7 as claimed: past the exit code check, a stdout that is missing or no
\* string gives STDOUT_FORMAT_ERROR and a stdout that is a string, the empty
\* one too, and no JSON text gives STDOUT_PARSE_ERROR with cause {stdout,
\* parseError}.
C7_EveryStringIsParsed ==
  \A c \in CallIds : PassesToStdout(c) =>
    /\ StdoutIn(c).t # "str" => RejectsWith(c, STDOUT_FORMAT_ERROR)
    /\ (StdoutIn(c).t = "str" /\ ~StdoutParse(c).ok) =>
         (RejectsWith(c, STDOUT_PARSE_ERROR) /\ ParseCause(c))

\* C7 amended: a stdout that is missing, no string or the empty string gives
\* STDOUT_FORMAT_ERROR; a stdout that is a string that is not empty and no
\* JSON text gives STDOUT_PARSE_ERROR with cause {stdout, parseError}.
C7_NonEmptyStringIsParsed ==
  \A c \in CallIds : PassesToStdout(c) =>
    /\ (StdoutIn(c).t # "str" \/ StdoutIn(c) = Str(<<>>)) =>
         RejectsWith(c, STDOUT_FORMAT_ERROR)
    /\ (StdoutIn(c).t = "str" /\ StdoutIn(c) # Str(<<>>) /\ ~StdoutParse(c).ok) =>
         (RejectsWith(c, STDOUT_PARSE_ERROR) /\ ParseCause(c))

C7_Witness ==
  \E c \in CallIds :
    /\ PassesToStdout(c) /\ StdoutIn(c) = Str(<<W("oops")>>)
    /\ RejectsWith(c, STDOUT_PARSE_ERROR) /\ ParseCause(c)

-----------------------------------------------------------------------------
(* C8 *)

InnerHas(c, k) == InnerErrorIn(c).t = "obj" /\ HasOwn(InnerErrorIn(c), k)
InnerField(c, k) == OptGet(InnerErrorIn(c), k)

\* C8 as claimed: a parsed stdout that is an object with a falsy success
\* rejects with a BlessCrawlError whose message, code and cause are the inner
\* error's message, code and details where the inner error has them, and
\* 'Operation failed', OPERATION_ERROR and no cause where it has not.
C8_PresentFieldsAreUsed ==
  \A c \in CallIds : (PassesToSuccess(c) /\ ~Truthy(SuccessIn(c))) =>
    /\ Rejects(c) /\ Outcome(c).v.name = "BlessCrawlError"
    /\ Outcome(c).v.message =
         IF InnerHas(c, K("message")) THEN TemplateString(InnerField(c, K("message")))
         ELSE OperationFailed
    /\ Outcome(c).v.code =
         IF InnerHas(c, K("code")) THEN InnerField(c, K("code"))
         ELSE Str(OPERATION_ERROR)
    /\ Outcome(c).v.cause =
         IF InnerHas(c, K("details")) THEN InnerField(c, K("details")) ELSE Undefined

\* C8 amended: the message and the code are the inner error's where it has
\* them with a truthy value (not "", 0, false or null), and 'Operation
\* failed' and OPERATION_ERROR otherwise; the cause is the inner error's
\* details, whatever their value, and none where it has no details.
C8_TruthyFieldsAreUsed ==
  \A c \in CallIds : (PassesToSuccess(c) /\ ~Truthy(SuccessIn(c))) =>
    /\ Rejects(c) /\ Outcome(c).v.name = "BlessCrawlError"
    /\ Outcome(c).v.message =
         IF Truthy(InnerField(c, K("message")))
           THEN TemplateString(InnerField(c, K("message")))
         ELSE OperationFailed
    /\ Outcome(c).v.code =
         IF Truthy(InnerField(c, K("code"))) THEN InnerField(c, K("code"))
         ELSE Str(OPERATION_ERROR)
    /\ Outcome(c).v.cause =
         IF InnerHas(c, K("details")) THEN InnerField(c, K("details")) ELSE Undefined

C8_Witness ==
  \E c \in CallIds :
    /\ PassesToSuccess(c) /\ SuccessIn(c) = Bool(FALSE)
    /\ InnerField(c, K("code")) = Str(Snake(<<"NOT", "FOUND">>))
    /\ InnerField(c, K("details")) = InnerDetails
    /\ Rejects(c)
    /\ Outcome(c).v.message = Words(<<"page", "not", "found">>)
    /\ Outcome(c).v.code = Str(Snake(<<"NOT", "FOUND">>))
    /\ Outcome(c).v.cause = InnerDetails

-----------------------------------------------------------------------------
(* C9 *)

\* C9 as claimed: with a truthy success, the call rejects with NO_DATA_ERROR
\* and the parsed stdout as cause where the parsed stdout has no data field,
\* and resolves to the data value, whatever it is, where it has one.
C9_MissingDataOnly ==
  \A c \in CallIds : PassesToData(c) =>
    IF HasOwn(StdinOutputIn(c), K("data"))
      THEN Resolves(c) /\ Outcome(c).v = DataIn(c)
      ELSE RejectsWith(c, NO_DATA_ERROR) /\ Outcome(c).v.cause = StdinOutputIn(c)

\* C9 amended: with a truthy success, the call rejects with NO_DATA_ERROR and
\* the parsed stdout as cause exactly when the data field is missing or its
\* value is falsy (null, false, 0, ""), and resolves to the data value when
\* it is truthy.
C9_MissingOrFalsyData ==
  \A c \in CallIds : PassesToData(c) =>
    IF Truthy(DataIn(c))
      THEN Resolves(c) /\ Outcome(c).v = DataIn(c)
      ELSE RejectsWith(c, NO_DATA_ERROR) /\ Outcome(c).v.cause = StdinOutputIn(c)

C9_Witness ==
  \E c \in CallIds :
    /\ PassesToData(c) /\ ~HasOwn(StdinOutputIn(c), K("data"))
    /\ RejectsWith(c, NO_DATA_ERROR) /\ Outcome(c).v.cause = StdinOutputIn(c)

-----------------------------------------------------------------------------
(* C10 *)

\* the call rejects with an HTTP_ERROR that wraps this exception
Wraps(c, exception) ==
  RejectsWith(c, HTTP_ERROR) /\ Outcome(c).v.cause = exception

\* C10: a rejection of fetch and a throw of response.json() (the body is not
\* read, or is no JSON text) reject the call with HTTP_ERROR and the caught
\* exception as cause; the BlessCrawlError of a check of the decoder rejects
\* the call as it was thrown, its code, message and cause unchanged.
C10_CatchAll ==
  \A c \in CallIds : Answered(c) =>
    /\ Reply(c).rejected => Wraps(c, Reply(c).reason)
    /\ (StatusOk(c) /\ ~BodyParsed(c)) => Wraps(c, ResponseJson(Reply(c)).v)
    /\ (~Reply(c).rejected /\ ~Reply(c).ok) =>
         (RejectsWith(c, HTTP_ERROR) /\ Outcome(c).v.cause = Undefined)
    /\ (BodyParsed(c) /\ DecodeHttpResult(HttpResultIn(c)).kind = "throw") =>
         Outcome(c) = DecodeHttpResult(HttpResultIn(c))

C10_Witness ==
  \E c \in CallIds :
    /\ Answered(c) /\ Reply(c).rejected
    /\ Reply(c).reason = Error("TypeError", Words(<<"fetch", "failed">>))
    /\ Wraps(c, Error("TypeError", Words(<<"fetch", "failed">>)))

-----------------------------------------------------------------------------
(* C1 *)

Started(c) == calls[c].pc # "idle"
NoTransport(c) == requests[c] = <<>> /\ bindingCalls[c] = <<>>

\* the options hold a field the operation declares with a value out of its
\* bounds or of another type
HasBadField(operation, options) ==
  /\ options.t = "obj"
  /\ \E i \in DOMAIN options.o :
       \E j \in DOMAIN CasesOf(operation) :
         /\ CasesOf(operation)[j].k = options.o[i].k
         /\ options.o[i].v \in CasesOf(operation)[j].bad

\* the URL is no string, or a string of blanks only
UrlIsEmpty(url) == url.t # "str" \/ \A i \in DOMAIN url.s : url.s[i].k = "sp"

RejectsValidation(c) ==
  /\ Rejects(c)
  /\ Outcome(c).v.t = "err"
  /\ Outcome(c).v.name = "BlessCrawlValidationError"
  /\ Outcome(c).v.code = Str(VALIDATION_ERROR)

\* C1 as claimed: a call of scrape, map or crawl, in either mode, whose
\* options hold a declared field out of its bound or wrongly typed rejects
\* with a ValidationError of code VALIDATION_ERROR, and no HTTP request and
\* no call of the host binding is made for it.
C1_BadFieldIsValidationError ==
  \A c \in CallIds : (Started(c) /\ HasBadField(calls[c].operation, calls[c].options)) =>
    RejectsValidation(c) /\ NoTransport(c)

\* C1 amended: such a call makes no HTTP request and no call of the host
\* binding, ever; with a URL that is a string not empty after trimming it
\* rejects with a ValidationError of code VALIDATION_ERROR (with another URL
\* the URL guard rejects it first).
C1_BadFieldNeverDispatched ==
  \A c \in CallIds : (Started(c) /\ HasBadField(calls[c].operation, calls[c].options)) =>
    /\ NoTransport(c)
    /\ calls[c].pc = "done"
    /\ ~UrlIsEmpty(calls[c].url) => RejectsValidation(c)

C1_Witness ==
  \E c \in CallIds :
    /\ calls[c].operation = "crawl" /\ calls[c].url = Str(ExampleUrl)
    /\ calls[c].options = Obj(<<MaxDepth6>>)
    /\ client._isWasmMode
    /\ RejectsValidation(c) /\ NoTransport(c)
    /\ Includes(Outcome(c).v.message, Snake(<<"max", "depth">>))

-----------------------------------------------------------------------------
(* C2 *)

\* C2: a call of scrape, map or crawl whose url is no string or is empty
\* after trimming rejects with a BlessCrawlError without a code, whatever the
\* options (a bad options is not reported), and no HTTP request and no call
\* of the host binding is made for it.
C2_UrlGuardFirst ==
  \A c \in CallIds : (Started(c) /\ UrlIsEmpty(calls[c].url)) =>
    /\ calls[c].pc = "done"
    /\ Rejects(c)
    /\ Outcome(c).v.t = "err" /\ Outcome(c).v.name = "BlessCrawlError"
    /\ Outcome(c).v.code = Undefined
    /\ Outcome(c).v.message = UrlMustBeNonEmpty
    /\ NoTransport(c)

C2_Witness ==
  \E c \in CallIds :
    /\ calls[c].operation = "map" /\ calls[c].url = Str(<<SP, SP, SP>>)
    /\ calls[c].options = Obj(<<Timeout4999>>)
    /\ Rejects(c) /\ Outcome(c).v.name = "BlessCrawlError"
    /\ Outcome(c).v.code = Undefined
    /\ NoTransport(c)

-----------------------------------------------------------------------------
(* The codes of the errors *)

\* an error that carries a code
HasCode(e) == e.t = "err" /\ "code" \in DOMAIN e /\ e.code # Undefined

\* the errors raised so far: by the constructor and by the calls
Raised ==
  (IF client.state = "threw" THEN {client.error} ELSE {})
    \cup {Outcome(c).v : c \in {d \in CallIds : Rejects(d)}}

\* the vocabulary of codes, letter by letter
Vocabulary ==
  {Str(Snake(ws)) : ws \in
     {<<"VALIDATION", "ERROR">>, <<"HTTP", "ERROR">>,
      <<"FUNCTION", "EXECUTION", "ERROR">>, <<"NO", "RESULTS", "ERROR">>,
      <<"RESULT", "FORMAT", "ERROR">>, <<"FUNCTION", "EXIT", "ERROR">>,
      <<"STDOUT", "FORMAT", "ERROR">>, <<"STDOUT", "PARSE", "ERROR">>,
      <<"STDIN", "OUTPUT", "FORMAT", "ERROR">>, <<"OPERATION", "ERROR">>,
      <<"NO", "DATA", "ERROR">>}}

\* call c was answered by a parsed stdout object whose success is falsy
FalsySuccess(c) == Answered(c) /\ PassesToSuccess(c) /\ ~Truthy(SuccessIn(c))

(* C11, as stated: every error raised with a code carries a code of the
   vocabulary of eleven codes. Violated: a body that is JSON null, a number,
   a string or a boolean gives RESPONSE_FORMAT_ERROR, and an inner error's
   own code is passed on as it is. *)
C11_CodeFromVocabulary ==
  \A e \in Raised : HasCode(e) => e.code \in Vocabulary

(* C11, amended: every error raised with a code carries a code of the
   vocabulary, or RESPONSE_FORMAT_ERROR, or, for a reply whose parsed stdout
   has a falsy success, the truthy code of the reply's inner error. *)
C11_CodeFromVocabularyOrReply ==
  /\ client.state = "threw" /\ HasCode(client.error)
       => client.error.code \in Vocabulary
  /\ \A c \in CallIds : (Rejects(c) /\ HasCode(Outcome(c).v)) =>
       \/ Outcome(c).v.code \in Vocabulary
       \/ Outcome(c).v.code = Str(Snake(<<"RESPONSE", "FORMAT", "ERROR">>))
       \/ /\ FalsySuccess(c)
          /\ Truthy(InnerField(c, K("code")))
          /\ Outcome(c).v.code = InnerField(c, K("code"))

\* a body that is JSON null is answered by the code RESPONSE_FORMAT_ERROR
C11_Witness ==
  \E c \in CallIds :
    /\ Answered(c) /\ BodyParsed(c) /\ HttpResultIn(c) = Null
    /\ Rejects(c) /\ HasCode(Outcome(c).v)
    /\ Outcome(c).v.code = Str(Snake(<<"RESPONSE", "FORMAT", "ERROR">>))

-----------------------------------------------------------------------------
(* The outcomes of a call *)

(* C12, as stated: every call of scrape, map or crawl that has ended, for
   any url and any options value, either resolved or rejected with a
   BlessCrawlError (or its validation subtype); no other error escapes.
   Violated: map and crawl destructure their options before validating
   them, so null options escape as a TypeError. *)
C12_TypedOutcomeOnly ==
  \A c \in CallIds : calls[c].pc = "done" =>
    \/ Resolves(c)
    \/ Rejects(c) /\ InstanceOfBlessCrawlError(Outcome(c).v)

-----------------------------------------------------------------------------
(* The mode of a client *)

(* C13: the mode is decided by the constructor, 'wasm' exactly when the
   global binding exists at that moment, and no later step changes it:
   no call, no settling of a call, whether it succeeds or fails, and no
   appearance or disappearance of the global binding. *)
C13_ModeFixedAtConstruction ==
  [][/\ (client.state = "none" /\ client'.state = "constructed") =>
          runtimeMode' = IF globalBlessCrawl THEN "wasm" ELSE "http"
     /\ client.state = "constructed" =>
          client'.state = "constructed" /\ runtimeMode' = runtimeMode]_vars

\* a client made with the binding, which has gone since, after one call
\* that resolved and one that rejected
C13_Witness ==
  /\ client.state = "constructed" /\ runtimeMode = "wasm" /\ ~globalBlessCrawl
  /\ \E c, d \in CallIds : Resolves(c) /\ Rejects(d) /\ bindingCalls[d] # <<>>

(* C14: a client in local mode never issues an HTTP request and a client in
   remote mode never calls a host binding, in any operation and whatever
   became of its earlier calls: there is no fallback between the modes. *)
C14_NoFallback ==
  client.state = "constructed" =>
    \A c \in CallIds :
      /\ runtimeMode = "wasm" => requests[c] = <<>>
      /\ runtimeMode = "http" => bindingCalls[c] = <<>>

\* a remote-mode client one of whose requests failed, with the global
\* binding there: its other call went to the endpoint too
C14_Witness ==
  \E c, d \in CallIds :
    /\ runtimeMode = "http" /\ globalBlessCrawl
    /\ RejectsWith(c, HTTP_ERROR) /\ requests[c] # <<>> /\ bindingCalls[c] = <<>>
    /\ d # c /\ requests[d] # <<>> /\ bindingCalls[d] = <<>>

-----------------------------------------------------------------------------
(* The requests of a call *)

\* the arguments of call c pass the URL guard and the validation: the URL
\* has a character that is no blank, and the options are left out or are an
\* object each declared field of which is undefined or inside its bounds
PassesGuardAndValidation(c) ==
  /\ ~UrlIsEmpty(calls[c].url)
  /\ calls[c].options.t \in {"undefined", "obj"}
  /\ calls[c].options.t = "obj" =>
       \A i \in DOMAIN calls[c].options.o :
         \A j \in DOMAIN CasesOf(calls[c].operation) :
           CasesOf(calls[c].operation)[j].k = calls[c].options.o[i].k =>
             calls[c].options.o[i].v \in
               {Undefined, CasesOf(calls[c].operation)[j].ok}
                 \cup CasesOf(calls[c].operation)[j].good

\* the arguments of call c fail the URL guard or the validation: the URL is
\* no string or is blank, or the options are neither left out nor an
\* object, or a declared field is out of its bounds
FailsGuardOrValidation(c) ==
  \/ UrlIsEmpty(calls[c].url)
  \/ calls[c].options.t \notin {"undefined", "obj"}
  \/ HasBadField(calls[c].operation, calls[c].options)

\* the requests of call c are left as they are; a call that has ended is
\* left as it is; a fetch that settles ends the call with an error unless
\* the status is ok, and the decoding of the body ends it
C15_Step(c) ==
  /\ requests'[c] # requests[c] => calls[c].pc = "idle"
  /\ calls[c].pc = "done" => calls'[c] = calls[c]
  /\ (calls[c].pc = "fetch" /\ calls'[c] # calls[c]) =>
       \/ /\ calls'[c].pc = "json"
          /\ ~calls'[c].response.rejected /\ calls'[c].response.ok
       \/ /\ calls'[c].pc = "done" /\ calls'[c].outcome.kind = "throw"
          /\ calls'[c].response.rejected \/ ~calls'[c].response.ok
  /\ (calls[c].pc = "json" /\ calls'[c] # calls[c]) => calls'[c].pc = "done"

(* C15: a call of a remote-mode client issues exactly one HTTP request when
   its arguments pass the URL guard and the validation and none otherwise;
   the request is sent when the call is made and never again, and a failing
   reply ends the call at once with its error. *)
C15_OneRequestNoRetry ==
  /\ [](\A c \in CallIds : (Started(c) /\ runtimeMode = "http") =>
          /\ Len(requests[c]) <= 1
          /\ PassesGuardAndValidation(c) => Len(requests[c]) = 1
          /\ FailsGuardOrValidation(c) => Len(requests[c]) = 0
          /\ requests[c] = <<>> =>
               calls[c].pc = "done" /\ Rejects(c) /\ Reply(c) = Undefined)
  /\ [][\A c \in CallIds : C15_Step(c)]_vars

\* a call whose request was rejected by the transport: it has ended with
\* HTTP_ERROR after its one request
C15_Witness ==
  \E c \in CallIds :
    /\ runtimeMode = "http" /\ PassesGuardAndValidation(c)
    /\ Answered(c) /\ Reply(c).rejected
    /\ RejectsWith(c, HTTP_ERROR) /\ Len(requests[c]) = 1

-----------------------------------------------------------------------------
(* The failures of the host binding *)

\* the binding's method was called for call c and threw
BindingThrew(c) ==
  calls[c].pc = "done" /\ bindingCalls[c] # <<>> /\ Reply(c).kind = "throw"

(* C16: in local mode, when the binding's scrape, map or crawl method throws
   or rejects, the operation rejects with a BlessCrawlError whose message is
   the thrown error's message, or 'Unknown error during <operation>
   operation' when the thrown value is no Error, and which has no code and
   no cause, whatever the thrown error carried. *)
C16_BindingFailureIsWrapped ==
  \A c \in CallIds : BindingThrew(c) =>
    /\ Rejects(c)
    /\ Outcome(c).v.t = "err" /\ Outcome(c).v.name = "BlessCrawlError"
    /\ Outcome(c).v.message =
         IF Reply(c).v.t = "err" THEN Reply(c).v.message
         ELSE Words(<<"Unknown", "error", "during">>)
                \o <<SP, W(calls[c].operation), SP, W("operation")>>
    /\ Outcome(c).v.code = Undefined
    /\ Outcome(c).v.cause = Undefined

\* the binding's map threw an error with a code and a cause: the operation
\* rejects with the message alone
C16_Witness ==
  \E c \in CallIds :
    /\ BindingThrew(c) /\ calls[c].operation = "map"
    /\ Reply(c).v.t = "err" /\ HasCode(Reply(c).v) /\ Reply(c).v.cause # Undefined
    /\ Rejects(c) /\ Outcome(c).v.message = Reply(c).v.message
    /\ ~HasCode(Outcome(c).v)

-----------------------------------------------------------------------------
(* What is dispatched *)

\* call c was dispatched, to the endpoint or to the binding
Dispatched(c) == requests[c] # <<>> \/ bindingCalls[c] # <<>>

\* the body of the request of call c, and the stdin object in it, parsed
RequestBody(c) == JSONparse(requests[c][1].body).v
RequestStdin(c) ==
  LET stdin == Get(Get(RequestBody(c), K("config")), K("stdin"))
  IN IF stdin.t = "str" THEN JSONparse(stdin.s).v ELSE Undefined

\* the configuration dispatched for call c: the config of the stdin of its
\* request, or the options handed to the binding's method
SentConfig(c) ==
  IF requests[c] # <<>> THEN Get(RequestStdin(c), K("config"))
  ELSE bindingCalls[c][1].options

\* the fields the constructor config and the options of scrape share
ScrapeDefaults == {K("format"), K("timeout")}

(* C17, as stated: the configuration dispatched for a call holds every
   scrape-option field that the constructor config sets and the call's
   options leave out, with the constructor's value, in remote mode and in
   local mode. Violated: the operations send the call's own validated
   options only. *)
C17_DefaultsAreMerged ==
  \A c \in CallIds : (client.state = "constructed" /\ Dispatched(c)) =>
    \A k \in ScrapeDefaults :
      (HasOwn(client._config, k) /\ ~HasOwn(calls[c].options, k)) =>
        Get(SentConfig(c), k) = Get(client._config, k)

-----------------------------------------------------------------------------
(* The state of the client *)

(* C18: no call of scrape, map or crawl, and no settling of one, changes the
   client: endpoint_url, function_id, the stored validated config, the mode
   and the local handle stay as the constructor left them, through any
   sequence of calls, successful or failing. *)
C18_CallsLeaveClientAlone ==
  [][client.state = "constructed" =>
       /\ client'.state = "constructed"
       /\ client'.endpoint_url = client.endpoint_url
       /\ client'.function_id = client.function_id
       /\ client'._config = client._config
       /\ client'._isWasmMode = client._isWasmMode
       /\ client'._instance = client._instance]_vars

\* a client of either mode, made with an endpoint and a function of its
\* own, after one call that resolved and one that rejected
C18_Witness ==
  /\ client.state = "constructed"
  /\ client.endpoint_url = Str(K("myhost")) /\ client.function_id = Str(K("myid"))
  /\ \E c, d \in CallIds : Resolves(c) /\ Rejects(d) /\ Dispatched(d)

-----------------------------------------------------------------------------
(* The endpoint and the function of a client *)

\* the value of the first of the three levels that gives one: the
\* constructor config if provided[1], else the environment if provided[2],
\* else the built-in default
C19_Level(configKey, envKey, default, provided) ==
  IF provided[1] THEN Get(client._config, configKey)
  ELSE IF provided[2] THEN Get(env, envKey)
  ELSE Str(default)

(* C19, as stated: endpoint_url is the constructor config's endpoint_url
   whenever the config provides one, otherwise BLESS_ENDPOINT_URL of the
   environment when it is set, otherwise the built-in default; function_id
   likewise with BLESS_FUNCTION_ID. Violated: an empty string in the config
   is passed over. *)
C19_ProvidedValueWins ==
  client.state = "constructed" =>
    /\ client.endpoint_url =
         C19_Level(Snake(<<"endpoint", "url">>), Snake(<<"BLESS", "ENDPOINT", "URL">>),
                   BLESS_ENDPOINT_URL,
                   <<HasOwn(client._config, Snake(<<"endpoint", "url">>)),
                     HasOwn(env, Snake(<<"BLESS", "ENDPOINT", "URL">>))>>)
    /\ client.function_id =
         C19_Level(Snake(<<"function", "id">>), Snake(<<"BLESS", "FUNCTION", "ID">>),
                   BLESS_FUNCTION_ID,
                   <<HasOwn(client._config, Snake(<<"function", "id">>)),
                     HasOwn(env, Snake(<<"BLESS", "FUNCTION", "ID">>))>>)

(* C19, amended: endpoint_url is the constructor config's endpoint_url
   whenever that is a non-empty string, otherwise BLESS_ENDPOINT_URL of the
   environment when that is a non-empty string, otherwise the built-in
   default; function_id likewise with BLESS_FUNCTION_ID. *)
C19_NonEmptyValueWins ==
  client.state = "constructed" =>
    /\ client.endpoint_url =
         C19_Level(Snake(<<"endpoint", "url">>), Snake(<<"BLESS", "ENDPOINT", "URL">>),
                   BLESS_ENDPOINT_URL,
                   <<Truthy(Get(client._config, Snake(<<"endpoint", "url">>))),
                     Truthy(Get(env, Snake(<<"BLESS", "ENDPOINT", "URL">>)))>>)
    /\ client.function_id =
         C19_Level(Snake(<<"function", "id">>), Snake(<<"BLESS", "FUNCTION", "ID">>),
                   BLESS_FUNCTION_ID,
                   <<Truthy(Get(client._config, Snake(<<"function", "id">>))),
                     Truthy(Get(env, Snake(<<"BLESS", "FUNCTION", "ID">>)))>>)

\* a client made with an endpoint and a function of its own while the
\* environment names others: the config's values are the client's
C19_Witness ==
  /\ client.state = "constructed"
  /\ Get(env, Snake(<<"BLESS", "ENDPOINT", "URL">>)) = Str(K("envhost"))
  /\ Get(env, Snake(<<"BLESS", "FUNCTION", "ID">>)) = Str(K("envid"))
  /\ Get(client._config, Snake(<<"endpoint", "url">>)) = Str(K("myhost"))
  /\ client.endpoint_url = Str(K("myhost")) /\ client.function_id = Str(K("myid"))

-----------------------------------------------------------------------------
(* The request of a remote call *)

\* the properties of an object, as a set
PropsOf(v) == IF v.t = "obj" THEN {v.o[i] : i \in DOMAIN v.o} ELSE {}
KeysOf(v) == {p.k : p \in PropsOf(v)}

\* the validated combined options of call c: the fields of its options that
\* the operation declares and that are not undefined
DeclaredOptions(c) ==
  {p \in PropsOf(calls[c].options) :
     /\ p.v # Undefined
     /\ \E j \in DOMAIN CasesOf(calls[c].operation) :
          CasesOf(calls[c].operation)[j].k = p.k}

(* C20: for every remote-mode operation that passes the URL guard and the
   validation, the request is a POST to the client's endpoint_url whose JSON
   body has function_id equal to the client's function_id, method equal to
   "blessnet.wasm", config.permissions equal to the one-element list [url]
   and config.stdin equal to the JSON string of {operation, url, config},
   where operation names the method called and config is the validated
   combined options of the call. *)
C20_RequestFormat ==
  \A c \in CallIds : (runtimeMode = "http" /\ requests[c] # <<>>) =>
    /\ requests[c][1].method = "POST"
    /\ requests[c][1].url = client.endpoint_url
    /\ JSONparse(requests[c][1].body).ok
    /\ KeysOf(RequestBody(c)) = {Snake(<<"function", "id">>), K("method"), K("config")}
    /\ Get(RequestBody(c), Snake(<<"function", "id">>)) = client.function_id
    /\ Get(RequestBody(c), K("method")) = Str(<<W("blessnet"), P("."), W("wasm")>>)
    /\ KeysOf(Get(RequestBody(c), K("config"))) = {K("permissions"), K("stdin")}
    /\ Get(Get(RequestBody(c), K("config")), K("permissions")) = Arr(<<calls[c].url>>)
    /\ Get(Get(RequestBody(c), K("config")), K("stdin")).t = "str"
    /\ JSONparse(Get(Get(RequestBody(c), K("config")), K("stdin")).s).ok
    /\ KeysOf(RequestStdin(c)) = {K("operation"), K("url"), K("config")}
    /\ Get(RequestStdin(c), K("operation")) = Str(K(calls[c].operation))
    /\ Get(RequestStdin(c), K("url")) = calls[c].url
    /\ SentConfig(c).t = "obj"
    /\ PropsOf(SentConfig(c)) = DeclaredOptions(c)

\* a crawl of a URL with a leading blank, with options that hold an
\* undeclared field, by a client made with an endpoint of its own: the
\* request goes to that endpoint, names crawl and holds the declared fields
C20_Witness ==
  \E c \in CallIds :
    /\ runtimeMode = "http" /\ requests[c] # <<>>
    /\ client.endpoint_url = Str(K("myhost"))
    /\ calls[c].operation = "crawl"
    /\ calls[c].url = Str(<<SP>> \o ExampleUrl)
    /\ K("colour") \in KeysOf(calls[c].options)
    /\ KeysOf(SentConfig(c)) = {K("timeout"), Snake(<<"max", "depth">>)}
    /\ Get(RequestBody(c), Snake(<<"function", "id">>)) = Str(K("myid"))

-----------------------------------------------------------------------------
(* The split of the options of map and crawl *)

\* the configuration handed to the transport of call c
DispatchedConfig(c) ==
  IF bindingCalls[c] # <<>> THEN bindingCalls[c][1].options ELSE calls[c].config

\* the properties of an object that hold a value
Defined(v) == {p \in PropsOf(v) : p.v # Undefined}

\* the keys a schema declares, and the part of the options under them
KeysOfShape(schema) == {schema.shape[i].k : i \in DOMAIN schema.shape}
Half(options, schema) ==
  IF options.t = "obj"
    THEN Obj(SelectSeq(options.o, LAMBDA p : p.k \in KeysOfShape(schema)))
    ELSE Obj(<<>>)
OwnSchema(operation) ==
  IF operation = "map" THEN MapOptionsSchema ELSE CrawlOptionsSchema

(* C21: for a map or crawl that is dispatched, every field of the options
   that the operation's schemas declare, and that holds a value, is in the
   dispatched config with the same value, and the dispatched config is
   deep-equal to the merge of the scrape half and the operation's half
   validated each on its own (a property that holds undefined counts as
   absent). *)
C21_SplitIsLossless ==
  \A c \in CallIds :
    (calls[c].operation \in {"map", "crawl"} /\ Dispatched(c)) =>
      LET scrapeHalf == validateScrapeOptions(Half(calls[c].options, ScrapeOptionsSchema))
          ownHalf == Validate(OwnSchema(calls[c].operation), <<"Own", "options">>,
                              Half(calls[c].options, OwnSchema(calls[c].operation)))
      IN /\ DeclaredOptions(c) \subseteq PropsOf(DispatchedConfig(c))
         /\ scrapeHalf.kind = "return" /\ ownHalf.kind = "return"
         /\ Defined(DispatchedConfig(c)) = Defined(Spread(scrapeHalf.v, ownHalf.v))
         /\ Defined(DispatchedConfig(c)) = DeclaredOptions(c)

\* a map with a value for every field of the two schemas is dispatched with
\* all of them
C21_Witness ==
  \E c \in CallIds :
    /\ calls[c].operation = "map" /\ Dispatched(c)
    /\ KeysOf(calls[c].options) =
         KeysOfShape(ScrapeOptionsSchema) \cup KeysOfShape(MapOptionsSchema)
    /\ Defined(DispatchedConfig(c)) = PropsOf(calls[c].options)
    /\ Get(DispatchedConfig(c), Snake(<<"base", "url">>)) = Str(ExampleUrl)

-----------------------------------------------------------------------------
(* The list of violations of a ValidationError *)

\* the fields of the options of call c that the operation declares and whose
\* value is out of its bounds or of another type
BadFields(c) ==
  {p \in PropsOf(calls[c].options) :
     \E j \in DOMAIN CasesOf(calls[c].operation) :
       /\ CasesOf(calls[c].operation)[j].k = p.k
       /\ p.v \in CasesOf(calls[c].operation)[j].bad}

\* the paths of the violations the ValidationError of call c carries
ListedPaths(c) ==
  {Outcome(c).v.validationErrors.errors[i].path :
     i \in DOMAIN Outcome(c).v.validationErrors.errors}

(* C22 as claimed: the ValidationError of a call lists every violated
   constraint of its options: for each declared field with a bad value there
   is a violation whose path starts with that field, for map and crawl over
   the scrape fields and the operation's own fields together. *)
C22_AllViolationsListed ==
  \A c \in CallIds : RejectsValidation(c) =>
    \A p \in BadFields(c) :
      \E path \in ListedPaths(c) : path # <<>> /\ path[1] = Str(p.k)

\* a crawl with a timeout and a max_depth out of their bounds ends with a
\* ValidationError that lists the timeout alone
C22_OnlyScrapeFieldsListed ==
  \E c \in CallIds :
    /\ calls[c].operation = "crawl"
    /\ BadFields(c) = {MaxDepth6, Timeout4999}
    /\ RejectsValidation(c)
    /\ ListedPaths(c) = {<<Str(K("timeout"))>>}

-----------------------------------------------------------------------------
(* Calls in flight at once *)

\* the outcome of call c had it run alone with its arguments and its reply
Alone(c) ==
  LET prepared == Prepare(calls[c].operation, calls[c].url, calls[c].options)
      reply == calls[c].response
  IN IF prepared.kind = "throw" THEN prepared
     ELSE IF UsesBinding
       THEN (IF reply.kind = "throw" THEN CatchBinding(calls[c].operation, reply.v)
             ELSE reply)
     ELSE IF reply.rejected THEN CatchHttp(reply.reason)
     ELSE IF CheckResponseOk(reply).kind = "throw" THEN CatchHttp(CheckResponseOk(reply).v)
     ELSE AfterJson(reply)

\* what call c has sent is what it sends alone: one request, or one call of
\* the binding, made of its own arguments
SentAlone(c) ==
  LET prepared == Prepare(calls[c].operation, calls[c].url, calls[c].options)
  IN IF prepared.kind = "throw" THEN NoTransport(c)
     ELSE IF UsesBinding
       THEN /\ requests[c] = <<>>
            /\ bindingCalls[c] = <<[method |-> calls[c].operation, url |-> calls[c].url,
                                    options |-> prepared.v]>>
     ELSE /\ bindingCalls[c] = <<>>
          /\ requests[c] = <<HttpRequest(calls[c].operation, calls[c].url, prepared.v)>>

\* a step that changes the record or the messages of a call changes those of
\* no other call
C23_Step ==
  \A c \in CallIds :
    (calls'[c] # calls[c] \/ requests'[c] # requests[c]
       \/ bindingCalls'[c] # bindingCalls[c]) =>
      \A d \in CallIds \ {c} :
        calls'[d] = calls[d] /\ requests'[d] = requests[d]
          /\ bindingCalls'[d] = bindingCalls[d]

(* C23: with several operations in flight on one client, under every
   interleaving of the calls and their replies, each call that has started
   has sent what it sends alone, each call that has ended has the outcome it
   has alone with the same arguments and the same reply, and no step of one
   call changes the options, the request or the result of another. *)
C23_CallsAreIndependent ==
  /\ [](\A c \in CallIds :
          /\ Started(c) => SentAlone(c)
          /\ calls[c].pc = "done" => Outcome(c) = Alone(c))
  /\ [][C23_Step]_vars

\* the second call has been answered and has resolved while the first, begun
\* before it with other arguments, still waits for its reply
C23_Witness ==
  /\ calls[1].pc = "fetch" /\ calls[2].pc = "done"
  /\ Answered(2) /\ Resolves(2)
  /\ <<calls[1].operation, calls[1].url, calls[1].options>>
       # <<calls[2].operation, calls[2].url, calls[2].options>>
  /\ requests[1] # requests[2]

-----------------------------------------------------------------------------
(* The bounds of timeout and wait_time *)

\* the value is left out, or is an integer from lo to hi
InBounds(v, lo, hi) ==
  v.t = "undefined" \/ (v.t = "num" /\ v.f = 0 /\ v.n >= lo /\ v.n <= hi)

TimeoutOf(c) == Get(calls[c].options, K("timeout"))
WaitTimeOf(c) == Get(calls[c].options, Snake(<<"wait", "time">>))

\* the ValidationError of call c names the field in its list of violations
Names(c, key) == RejectsValidation(c) /\ <<Str(key)>> \in ListedPaths(c)

(* C24: for a call with a URL and an options object, the validation of the
   scrape options lists timeout among the violations exactly when it is
   given and is no integer in 5000..120000, and wait_time exactly when it is
   given and is no integer in 0..20000; a scrape whose options hold these
   two fields only is dispatched exactly when both are accepted, and then
   with the same values. *)
C24_TimeoutAndWaitTimeBounds ==
  \A c \in CallIds :
    (Started(c) /\ ~UrlIsEmpty(calls[c].url) /\ calls[c].options.t = "obj") =>
      /\ Names(c, K("timeout")) <=> ~InBounds(TimeoutOf(c), 5000, 120000)
      /\ Names(c, Snake(<<"wait", "time">>)) <=> ~InBounds(WaitTimeOf(c), 0, 20000)
      /\ (calls[c].operation = "scrape"
            /\ KeysOf(calls[c].options) \subseteq {K("timeout"), Snake(<<"wait", "time">>)}) =>
           /\ Dispatched(c) <=> (InBounds(TimeoutOf(c), 5000, 120000)
                                   /\ InBounds(WaitTimeOf(c), 0, 20000))
           /\ Dispatched(c) => Defined(DispatchedConfig(c)) = Defined(calls[c].options)

\* a scrape with a timeout of 120001 ends with a ValidationError that names
\* timeout, and nothing is sent
C24_Witness ==
  \E c \in CallIds :
    /\ calls[c].operation = "scrape"
    /\ calls[c].options = Obj(<<Prop(K("timeout"), Num(120001))>>)
    /\ Names(c, K("timeout")) /\ NoTransport(c)

-----------------------------------------------------------------------------
(* The stdin string of a request *)

\* the triple that makeHttpRequest encodes for call c
StdinInput(c) ==
  Obj(<<Prop(K("operation"), Str(K(calls[c].operation))),
        Prop(K("url"), calls[c].url),
        Prop(K("config"), calls[c].config)>>)

\* a value without the properties that hold undefined, at every level
RECURSIVE Plain(_)
Plain(v) ==
  CASE v.t = "obj" ->
         LET given == SelectSeq(v.o, LAMBDA p : p.v # Undefined)
         IN Obj([i \in DOMAIN given |-> Prop(given[i].k, Plain(given[i].v))])
    [] v.t = "arr" -> Arr([i \in DOMAIN v.a |-> Plain(v.a[i])])
    [] OTHER -> v

(* C25: the stdin of the request of a call is a string, and decoding it
   gives back the triple {operation, url, config} that was encoded, property
   by property and in the same order, for every operation, URL and validated
   config whose string is of at most 80 lexemes; a property of the config that
   holds undefined (an optional field that is not given) is absent on both
   sides. *)
C25_StdinRoundTrip ==
  \A c \in CallIds : requests[c] # <<>> =>
    LET stdin == Get(Get(RequestBody(c), K("config")), K("stdin"))
    IN /\ stdin.t = "str"
       /\ Len(stdin.s) <= 80 =>
            /\ JSONparse(stdin.s).ok
            /\ JSONparse(stdin.s).v = Plain(StdinInput(c))
            /\ calls[c].config = Plain(calls[c].config) =>
                 JSONparse(stdin.s).v = StdinInput(c)

\* the triple of a scrape with a wait_time of 0 comes back from the stdin
\* string, the 0 included
C25_Witness ==
  \E c \in CallIds :
    /\ requests[c] # <<>> /\ calls[c].operation = "scrape"
    /\ calls[c].config = Obj(<<Prop(Snake(<<"wait", "time">>), Num(0))>>)
    /\ Len(Get(Get(RequestBody(c), K("config")), K("stdin")).s) <= 80
    /\ RequestStdin(c) = StdinInput(c)

-----------------------------------------------------------------------------
(* The keys the schemas do not declare *)

\* the keys the schemas of an operation declare
DeclaredKeys(operation) ==
  KeysOfShape(ScrapeOptionsSchema)
    \cup (IF operation = "scrape" THEN {} ELSE KeysOfShape(OwnSchema(operation)))

\* the keys of the options of call c that its operation does not declare
UndeclaredKeys(c) == KeysOf(calls[c].options) \ DeclaredKeys(calls[c].operation)

(* C30: a key of the options that the schemas of the called operation do not
   declare is neither rejected nor forwarded: a call whose URL passes the
   guard and whose declared fields are all accepted is dispatched whatever
   other keys its options hold, the ValidationError of a call never names an
   undeclared key, and the config dispatched holds only keys that the scrape
   schema or the operation's own schema declares. *)
C30_UndeclaredKeysAreDropped ==
  \A c \in CallIds : Started(c) =>
    /\ PassesGuardAndValidation(c) => Dispatched(c)
    /\ RejectsValidation(c) =>
         \A path \in ListedPaths(c) :
           path # <<>> => \A k \in UndeclaredKeys(c) : path[1] # Str(k)
    /\ Dispatched(c) =>
         KeysOf(DispatchedConfig(c)) \subseteq DeclaredKeys(calls[c].operation)

\* a scrape given link_types, a key of map, is dispatched without it
C30_Witness ==
  \E c \in CallIds :
    /\ calls[c].operation = "scrape"
    /\ UndeclaredKeys(c) = {Snake(<<"link", "types">>)}
    /\ Dispatched(c)
    /\ Snake(<<"link", "types">>) \notin KeysOf(DispatchedConfig(c))

-----------------------------------------------------------------------------
(* The entry point of a program *)

(* C26 as claimed: every write of writeOutput goes to standard output, the
   file descriptor 1, so that what the callback of main returns is on the
   program's stdout. *)
C26_OutputOnStdout ==
  \A i \in DOMAIN entry.written : entry.written[i].fd = 1

\* the bytes that were on standard input: what was read, then what is left
RECURSIVE Joined(_)
Joined(chunks) == IF chunks = <<>> THEN <<>> ELSE Head(chunks) \o Joined(Tail(chunks))
StdinText == Joined(reader.inputChunks) \o reader.stdin

(* C27 as claimed: readInput returns once a read has given 0 bytes, all of
   standard input being read, and returns {args: v} where v is the JSON
   value of the bytes, or {args: {}} when they are empty or no valid JSON. *)
C27_ParsedValueOrEmptyObject ==
  reader.pc = "returned" =>
    /\ reader.stdin = <<>>
    /\ reader.totalBytes = Len(StdinText)
    /\ reader.returned =
         Obj(<<Prop(K("args"), IF JSONparse(StdinText).ok THEN JSONparse(StdinText).v
                               ELSE Obj(<<>>))>>)

(* C28 as claimed: main calls the callback once, whether it is synchronous
   or asynchronous; it writes nothing before the callback has completed and
   nothing when the callback throws or rejects; once the callback has
   returned or resolved it writes that object, once, and returns it. *)
C28_OneCallOneWriteAfterCompletion ==
  /\ entry.pc # "idle" => entry.called = 1
  /\ Len(entry.written) <= 1
  /\ entry.written # <<>> =>
       /\ entry.completed
       /\ entry.cb.ends.kind = "return"
       /\ entry.written[1].buffer = JSONstringify(entry.cb.ends.v)
  /\ entry.pc = "done" =>
       /\ entry.outcome = entry.cb.ends
       /\ entry.cb.ends.kind = "return" => Len(entry.written) = 1

-----------------------------------------------------------------------------
(* The --update option of the build command *)

\* an update was requested: --update was given as true or with a version
UpdateRequested(update) ==
  update = Bool(TRUE) \/ (update.t = "str" /\ update.s # <<>>)

\* a version without its leading v
WithoutV(version) ==
  IF version # <<>> /\ Head(version) = W("v") THEN Tail(version) ELSE version

\* the operations of a run on the file of Javy or of a plugin version
DidTo(run, what) == SelectSeq(run.did, LAMBDA d : d.what = what)

\* a run of the build command that reaches the installation
C29_Run(run) ==
  /\ run.update.t = "str" /\ run.update.s # <<>> =>
       run.targetVersion = Str(<<W("v")>> \o WithoutV(run.update.s))
  /\ run.update = Bool(TRUE) => run.targetVersion = Str(build.releases.latest)
  /\ run.update \in {Bool(FALSE), Undefined} =>
       run.targetVersion = Str(<<W("v"), D(0), P("."), D(2), P("."), D(3)>>)
  /\ DidTo(run, Str(K("javy"))) =
       IF UpdateRequested(run.update) \/ ~build.files.javy
         THEN (IF build.files.javy THEN <<[op |-> "unlink", what |-> Str(K("javy"))]>>
               ELSE <<>>) \o <<[op |-> "download", what |-> Str(K("javy"))]>>
         ELSE <<>>
  /\ DidTo(run, run.targetVersion) =
       IF UpdateRequested(run.update) \/ run.targetVersion \notin build.files.plugins
         THEN (IF run.targetVersion \in build.files.plugins
                 THEN <<[op |-> "unlink", what |-> run.targetVersion]>> ELSE <<>>)
                \o <<[op |-> "download", what |-> run.targetVersion]>>
         ELSE <<>>
  /\ Len(run.did) = Len(DidTo(run, Str(K("javy")))) + Len(DidTo(run, run.targetVersion))
  /\ run.ended = "built" =>
       /\ run.pluginPaths = <<run.targetVersion>>
       /\ build'.files.javy /\ run.targetVersion \in build'.files.plugins

(* C29: in every run of the build command that reaches the installation,
   the plugin version that is installed is, for --update given with a
   version, that version with one leading v; for --update given as true,
   the latest release; for --update false or not given, v0.2.3; and Javy and
   the plugin of that version are removed if present and downloaded anew
   exactly when an update was requested, and otherwise downloaded only when
   they are not there. *)
C29_UpdateOption ==
  [][build'.runs # build.runs =>
       LET run == build'.runs[Len(build'.runs)]
       IN run.targetVersion # Undefined => C29_Run(run)]_vars

\* a build with --update 0.3.0, while Javy and the plugin v0.3.0 are there,
\* removes both and installs them anew, the plugin as v0.3.0
C29_Witness ==
  \E i \in DOMAIN build.runs :
    /\ build.runs[i].update = Str(<<D(0), P("."), D(3), P("."), D(0)>>)
    /\ build.runs[i].ended = "built"
    /\ build.runs[i].targetVersion = Str(<<W("v"), D(0), P("."), D(3), P("."), D(0)>>)
    /\ [op |-> "unlink", what |-> build.runs[i].targetVersion]
         \in {build.runs[i].did[j] : j \in DOMAIN build.runs[i].did}
    /\ [op |-> "unlink", what |-> Str(K("javy"))]
         \in {build.runs[i].did[j] : j \in DOMAIN build.runs[i].did}

====
